---- MODULE Spec2Model ----
(***************************************************************************)
(* Nightlamp-Bible: the local data layer (db.js, importKJV.js,             *)
(* providers.js) and the parts of app.js that call into it.                *)
(*                                                                         *)
(* An object store is a sequence of records in ascending primary-key       *)
(* order.  A text is a sequence of one-character strings.  Every           *)
(* asynchronous function is split at its awaits; IndexedDB runs the        *)
(* transactions that touch one store in the order they were created.       *)
(***************************************************************************)
EXTENDS Integers, Sequences, FiniteSets, TLC

VARIABLES
  xml,        \* the document served at the import URL
  db,         \* verse stores: store name -> records in primary-key order
  imp,        \* importBibleFromXML calls
  nextSeq,    \* creation order of the readwrite transactions
  commits,    \* per verse store: bulk writes committed so far
  afterFirst  \* per verse store: its records right after the first commit

VARIABLES
  chapterRes, \* the last getChapterFromStore call and the list it returned
  search      \* the last searchTextCursor call and the list it returned

VARIABLES
  now,        \* the last value Date.now() returned
  bookmarks,  \* the bookmarks store, in primary-key order
  tog,        \* toggleBookmark calls
  toggled,    \* the completed toggleBookmark calls and what each returned
  overlapped  \* bookmark keys on which two toggleBookmark calls overlapped

VARIABLES
  state,      \* app.js state: translation, book, chapter, verses, stylesMap,
              \* selected, selectedKey
  rendered,   \* the verse rows #verses shows, each one clickable
  styles,     \* the verse_styles store, in primary-key order
  settings,   \* the settings store, in primary-key order
  stylesTx,   \* pending verse_styles transactions, in creation order
  oc,         \* openChapter calls
  st,         \* setTranslation calls
  up,         \* upsertSelectedStyle calls
  upserts     \* every upsertSelectedStyle call that reached its write

VARIABLES
  packFiles,  \* ./data/dive_*.json as served: pack kind -> keys with an entry
  memo,       \* _diveTags, _diveExplain, _diveCrossrefs
  fetches,    \* per pack kind: fetches of its file issued so far
  dive,       \* getDiveTags / getDiveExplain / getDiveCrossrefs calls
  diveCalls   \* number of such calls started so far

VARIABLES
  ad,         \* store-adapter calls (db.js functions called on kjv_verses)
  adTx        \* their transactions still running, in creation order

VARIABLES
  sg,         \* the saveSetting and loadSetting calls in progress
  sgTx,       \* the transactions on the settings store, oldest first
  saved       \* the saveSetting calls that have resolved, oldest first

VARIABLES
  boot        \* init's position, the page's status line and theme, and how init ended

VARIABLES
  idb,        \* the database on disk: its version, its object stores
  od          \* the openDb call in progress, with the database it found

VARIABLES
  walk        \* an import of a long document: the walk's position, count and rows, and the calls of onProgress

VARIABLES
  notes       \* the notes tab: state.notesFilter, the refresh in progress and the records shown

VARIABLES
  nw          \* a verse element's text content and what normalizeWhitespace made of it

VARIABLES
  sw          \* the service worker: the script installed, its cache, and the fetch events it is handling

VARIABLES
  nav         \* state.book, state.chapter and the chapter select's options

importVars == <<xml, db, imp, nextSeq, commits, afterFirst>>
queryVars == <<chapterRes, search>>
bookmarkVars == <<bookmarks, tog, toggled, overlapped>>
appVars == <<state, rendered, styles, settings, stylesTx, oc, st, up, upserts>>

diveVars == <<packFiles, memo, fetches, dive, diveCalls>>

adapterVars == <<ad, adTx>>

settingVars == <<sg, sgTx, saved>>

bootVars == <<boot>>

upgradeVars == <<idb, od>>

progressVars == <<walk>>

notesVars == <<notes>>

normalizeVars == <<nw>>

workerVars == <<sw>>

navVars == <<nav>>

vars ==
  <<importVars, queryVars, now, bookmarkVars, appVars, diveVars, adapterVars,
    settingVars, bootVars, upgradeVars, progressVars, notesVars,
    normalizeVars, workerVars, navVars>>

exceptImport ==
  <<queryVars, now, bookmarkVars, appVars, diveVars, adapterVars, settingVars,
    bootVars, upgradeVars, progressVars, notesVars, normalizeVars, workerVars,
    navVars>>
exceptQuery ==
  <<now, bookmarkVars, appVars, diveVars, adapterVars, settingVars, bootVars,
    upgradeVars, progressVars, notesVars, normalizeVars, workerVars, navVars>>
exceptBookmarks ==
  <<importVars, queryVars, appVars, diveVars, adapterVars, settingVars,
    bootVars, upgradeVars, progressVars, notesVars, normalizeVars, workerVars,
    navVars>>
exceptApp ==
  <<importVars, queryVars, bookmarkVars, diveVars, adapterVars, settingVars,
    bootVars, upgradeVars, progressVars, notesVars, normalizeVars, workerVars,
    navVars>>
exceptAppAndBoot ==
  <<importVars, queryVars, bookmarkVars, diveVars, adapterVars, settingVars,
    upgradeVars, progressVars, notesVars, normalizeVars, workerVars, navVars>>
exceptDive ==
  <<importVars, queryVars, now, bookmarkVars, appVars, adapterVars,
    settingVars, bootVars, upgradeVars, progressVars, notesVars,
    normalizeVars, workerVars, navVars>>
exceptBoot ==
  <<xml, imp, nextSeq, commits, afterFirst, queryVars, now, bookmarkVars,
    styles, settings, st, up, upserts, diveVars, adapterVars, settingVars,
    upgradeVars, progressVars, notesVars, normalizeVars, workerVars, navVars>>
exceptBootAndSettings ==
  <<xml, imp, nextSeq, commits, afterFirst, queryVars, now, bookmarkVars,
    styles, st, up, upserts, diveVars, adapterVars, settingVars,
    upgradeVars, progressVars, notesVars, normalizeVars, workerVars, navVars>>
exceptSettings ==
  <<importVars, queryVars, now, bookmarkVars, state, rendered, styles,
    stylesTx, oc, st, up, upserts, diveVars, adapterVars, bootVars,
    upgradeVars, progressVars, notesVars, normalizeVars, workerVars, navVars>>
exceptAdapter ==
  <<xml, imp, nextSeq, commits, afterFirst, queryVars, now, bookmarkVars,
    appVars, diveVars, settingVars, bootVars, upgradeVars, progressVars,
    notesVars, normalizeVars, workerVars, navVars>>
exceptUpgrade ==
  <<importVars, queryVars, now, bookmarkVars, appVars, diveVars, adapterVars,
    settingVars, bootVars, progressVars, notesVars, normalizeVars, workerVars,
    navVars>>
exceptProgress ==
  <<importVars, queryVars, now, bookmarkVars, appVars, diveVars, adapterVars,
    settingVars, bootVars, upgradeVars, notesVars, normalizeVars, workerVars,
    navVars>>
exceptNotes ==
  <<importVars, queryVars, now, bookmarkVars, appVars, diveVars, adapterVars,
    settingVars, bootVars, upgradeVars, progressVars, normalizeVars,
    workerVars, navVars>>
exceptNormalize ==
  <<importVars, queryVars, now, bookmarkVars, appVars, diveVars, adapterVars,
    settingVars, bootVars, upgradeVars, progressVars, notesVars, workerVars,
    navVars>>
exceptWorker ==
  <<importVars, queryVars, now, bookmarkVars, appVars, diveVars, adapterVars,
    settingVars, bootVars, upgradeVars, progressVars, notesVars,
    normalizeVars, navVars>>
exceptNav ==
  <<importVars, queryVars, now, bookmarkVars, appVars, diveVars, adapterVars,
    settingVars, bootVars, upgradeVars, progressVars, notesVars,
    normalizeVars, workerVars>>

\* ------------------------------------------------------------ bounds

MaxNodes == 3
MaxLimit == 3
MaxNow == 2
MaxToggles == 3
MaxUpserts == 2
MaxDiveCalls == 3

\* --------------------------------------------------------- constants

\* importKJV.js BOOKS: book ordinal -> canonical name
BOOKS ==
  << "Genesis","Exodus","Leviticus","Numbers","Deuteronomy",
     "Joshua","Judges","Ruth","1 Samuel","2 Samuel",
     "1 Kings","2 Kings","1 Chronicles","2 Chronicles",
     "Ezra","Nehemiah","Esther","Job","Psalms","Proverbs",
     "Ecclesiastes","Song of Solomon","Isaiah","Jeremiah","Lamentations",
     "Ezekiel","Daniel","Hosea","Joel","Amos","Obadiah","Jonah","Micah",
     "Nahum","Habakkuk","Zephaniah","Haggai","Zechariah","Malachi",
     "Matthew","Mark","Luke","John","Acts","Romans","1 Corinthians","2 Corinthians",
     "Galatians","Ephesians","Philippians","Colossians","1 Thessalonians","2 Thessalonians",
     "1 Timothy","2 Timothy","Titus","Philemon","Hebrews","James","1 Peter","2 Peter",
     "1 John","2 John","3 John","Jude","Revelation" >>

\* db.js STORES: the verse stores the model follows
KJV_VERSES == "kjv_verses"
ESV_VERSES == "esv_verses"
VerseStores == {KJV_VERSES, ESV_VERSES}

Undefined == "undefined"

\* ------------------------------------------------------------- texts

NBSP == "nbsp"

\* The characters JavaScript's \s and trim() treat as white space.
IsSpace(c) == c \in {" ", NBSP, "\t", "\n"}

\* String.prototype.toLowerCase, on the letters the model uses
LowerChar(c) ==
  CASE c = "A" -> "a"
    [] c = "B" -> "b"
    [] OTHER -> c

toLowerCase(s) == [i \in 1..Len(s) |-> LowerChar(s[i])]

\* s.replace(/\s+/g, " "): every maximal run of white space becomes one space
RECURSIVE CollapseRuns(_)
CollapseRuns(s) ==
  IF s = <<>> THEN <<>>
  ELSE IF IsSpace(Head(s))
       THEN IF Len(s) > 1 /\ IsSpace(s[2])
            THEN CollapseRuns(Tail(s))
            ELSE <<" ">> \o CollapseRuns(Tail(s))
       ELSE <<Head(s)>> \o CollapseRuns(Tail(s))

\* s.replace(/\u00A0/g, " ")
ReplaceNbsp(s) == [i \in 1..Len(s) |-> IF s[i] = NBSP THEN " " ELSE s[i]]

RECURSIVE TrimStart(_)
TrimStart(s) ==
  IF s # <<>> /\ IsSpace(Head(s)) THEN TrimStart(Tail(s)) ELSE s

RECURSIVE TrimEnd(_)
TrimEnd(s) ==
  IF s # <<>> /\ IsSpace(s[Len(s)]) THEN TrimEnd(SubSeq(s, 1, Len(s) - 1)) ELSE s

\* String.prototype.trim
trim(s) == TrimEnd(TrimStart(s))

\* A normalisation that would only replace and trim.
NormalizeWithoutCollapsing(s) == trim(ReplaceNbsp(s))

normalizeWhitespace(s) == trim(ReplaceNbsp(CollapseRuns(s)))

\* String.prototype.includes
includes(text, q) ==
  \E i \in 0..(Len(text) - Len(q)) : SubSeq(text, i + 1, i + Len(q)) = q

\* ------------------------------------------------------ primary keys

\* `${bookName}|${chapNum}|${verseNum}`
VerseKey(bookName, chapNum, verseNum) ==
  bookName \o "|" \o ToString(chapNum) \o "|" \o ToString(verseNum)

\* UTF-16 code units of the book names the bounded documents can name
BookUnits(bookName) ==
  CASE bookName = "Genesis" -> <<71, 101, 110, 101, 115, 105, 115>>
    [] bookName = "Exodus" -> <<69, 120, 111, 100, 117, 115>>

RECURSIVE DigitUnits(_)
DigitUnits(n) ==
  IF n < 10 THEN <<48 + n>> ELSE DigitUnits(n \div 10) \o <<48 + (n % 10)>>

\* UTF-16 code units of the translation ids
TranslationUnits(translation) ==
  CASE translation = "KJV" -> <<75, 74, 86>>
    [] translation = "ESV" -> <<69, 83, 86>>

\* UTF-16 code units of "undefined", what a template literal prints for a
\* field the object does not have
UndefinedUnits == <<117, 110, 100, 101, 102, 105, 110, 101, 100>>

\* UTF-16 code units of the settings keys
SettingUnits(key) ==
  CASE key = "translation" ->
         <<116, 114, 97, 110, 115, 108, 97, 116, 105, 111, 110>>
    [] key = "theme" -> <<116, 104, 101, 109, 101>>

FieldUnits(r, f) ==
  IF f \notin DOMAIN r THEN UndefinedUnits
  ELSE IF f = "book" THEN BookUnits(r.book)
  ELSE DigitUnits(r[f])

\* The code units of a record's key, "|" being unit 124: the setting's name
\* in settings, translation|book|chapter in bookmarks,
\* translation|book|chapter|verse in verse_styles, book|chapter|verse in a
\* verse store.
KeyUnits(r) ==
  LET bc == FieldUnits(r, "book") \o <<124>> \o FieldUnits(r, "chapter")
  IN  IF "value" \in DOMAIN r THEN SettingUnits(r.key)
      ELSE IF "savedAt" \in DOMAIN r
      THEN TranslationUnits(r.translation) \o <<124>> \o bc
      ELSE IF "color" \in DOMAIN r
      THEN TranslationUnits(r.translation) \o <<124>> \o bc
             \o <<124>> \o FieldUnits(r, "verse")
      ELSE bc \o <<124>> \o FieldUnits(r, "verse")

\* IndexedDB compares string keys by code unit; a proper prefix is smaller.
RECURSIVE UnitsLeq(_, _)
UnitsLeq(a, b) ==
  IF a = <<>> THEN TRUE
  ELSE IF b = <<>> THEN FALSE
  ELSE IF Head(a) # Head(b) THEN Head(a) < Head(b)
  ELSE UnitsLeq(Tail(a), Tail(b))

KeyLeq(r1, r2) == UnitsLeq(KeyUnits(r1), KeyUnits(r2))

\* ------------------------------------------------------ object store

WithoutKey(store, key) == SelectSeq(store, LAMBDA x : x.key # key)

\* The place of a new record: after every record whose key is not greater.
InsertByKey(store, r) ==
  LET before == SelectSeq(store, LAMBDA x : KeyLeq(x, r))
      after  == SelectSeq(store, LAMBDA x : ~KeyLeq(x, r))
  IN  before \o <<r>> \o after

\* A store that would keep the earlier record next to the new one.
PutAddsBeside(store, r) == InsertByKey(store, r)

\* IDBObjectStore.put on a store created with keyPath "key": the record
\* replaces the one stored under its key.
Put(store, r) == InsertByKey(WithoutKey(store, r.key), r)

\* A bulk write that would add every row as a new record.
PutAllAppends(store, rows) == store \o rows

\* for (const r of rows) store.put(r)
RECURSIVE PutAll(_, _)
PutAll(store, rows) ==
  IF rows = <<>> THEN store ELSE PutAll(Put(store, Head(rows)), Tail(rows))

Min(a, b) == IF a < b THEN a ELSE b

\* A delete that would take the first record when the key is not there.
DeleteSomething(store, key) ==
  IF \E i \in 1..Len(store) : store[i].key = key
  THEN SelectSeq(store, LAMBDA x : x.key # key)
  ELSE IF store = <<>> THEN store ELSE Tail(store)

\* IDBObjectStore.delete
Delete(store, key) == WithoutKey(store, key)

\* IDBObjectStore.get: req.result || null
Null == [null |-> TRUE]

getOne(store, key) ==
  IF \E i \in 1..Len(store) : store[i].key = key
  THEN store[CHOOSE i \in 1..Len(store) : store[i].key = key]
  ELSE Null

\* What the abort of a transaction that wrote under one key leaves: the
\* record the transaction found there, or none.
Undo(store, key, found) ==
  IF found = Null THEN Delete(store, key) ELSE Put(store, found)

\* countStore
countStore(store) == Len(store)

StoreKeys(store) == {store[i].key : i \in 1..Len(store)}

\* --------------------------------------------------- source documents

\* A verse element, listed with the number attributes of the chapter and
\* the book elements it is a direct child of.  Number(null) is 0.
Node(b, c, v, t) == [book |-> b, chapter |-> c, verse |-> v, text |-> t]

VerseNodes ==
  { Node(1, 1, 1, <<"a", " ", "b">>),
    Node(1, 1, 1, <<"B">>),
    Node(1, 1, 2, <<" ", "A", NBSP, " ", "b", "\n">>),
    Node(1, 1, 10, <<"a", "b">>),
    Node(1, 2, 1, <<"b", "a">>),
    Node(2, 1, 1, <<"a">>),
    Node(0, 1, 1, <<"a">>),
    Node(1, 0, 1, <<"a">>),
    Node(1, 1, 0, <<"a">>),
    Node(1, 1, 3, <<NBSP, " ">>) }

NodeSeqs == UNION {[1..n -> VerseNodes] : n \in 0..MaxNodes}

\* What DOMParser makes of the fetched text: a tree, or a parsererror.
Docs ==
  {[wellFormed |-> TRUE, nodes |-> ns] : ns \in NodeSeqs}
    \cup {[wellFormed |-> FALSE, nodes |-> <<>>]}

\* ------------------------------------------------------------ importer

\* BOOKS[bookNum - 1]
BookName(bookNum) ==
  IF bookNum \in 1..Len(BOOKS) THEN BOOKS[bookNum] ELSE Undefined

Row(bookName, chapNum, verseNum, text) ==
  [key |-> VerseKey(bookName, chapNum, verseNum), book |-> bookName,
   chapter |-> chapNum, verse |-> verseNum, text |-> text]

\* The three nested loops of importBibleFromXML over the document's nodes.
\* A walk that would keep every verse of a known book, whatever its number
\* and text.
RECURSIVE ParseRowsKeepingAll(_)
ParseRowsKeepingAll(nodes) ==
  IF nodes = <<>> THEN <<>>
  ELSE LET n == Head(nodes)
       IN  IF BookName(n.book) = Undefined THEN ParseRowsKeepingAll(Tail(nodes))
           ELSE <<Row(BookName(n.book), n.chapter, n.verse,
                      normalizeWhitespace(n.text))>>
                  \o ParseRowsKeepingAll(Tail(nodes))

RECURSIVE ParseRows(_)
ParseRows(nodes) ==
  IF nodes = <<>> THEN <<>>
  ELSE LET n        == Head(nodes)
           bookName == BookName(n.book)
           text     == normalizeWhitespace(n.text)
       IN  IF bookName = Undefined THEN ParseRows(Tail(nodes))
           ELSE IF n.chapter = 0 THEN ParseRows(Tail(nodes))
           ELSE IF n.verse = 0 \/ text = <<>> THEN ParseRows(Tail(nodes))
           ELSE <<Row(bookName, n.chapter, n.verse, text)>> \o ParseRows(Tail(nodes))

\* new Set(rows.map(r => r.book)).size
BooksOf(rows) == Cardinality({rows[i].book : i \in 1..Len(rows)})

Calls == {"c1", "c2"}

NoResult == [verses |-> 0, books |-> 0]

IdleCall ==
  [pc |-> "idle", store |-> "", rows |-> <<>>, seq |-> 0, err |-> "",
   result |-> NoResult, found |-> <<>>, left |-> <<>>]

\* importBibleFromXML(xmlUrl, storeName): openDb, then the fetch is issued.
ImportStart(c, s) ==
  /\ imp[c].pc = "idle"
  /\ imp' = [imp EXCEPT ![c] = [@ EXCEPT !.pc = "fetching", !.store = s]]
  /\ UNCHANGED <<xml, db, nextSeq, commits, afterFirst, exceptImport>>

\* if (!res.ok) throw, or fetch itself rejects
FetchFails(c) ==
  /\ imp[c].pc = "fetching"
  /\ imp' = [imp EXCEPT ![c] = [@ EXCEPT !.pc = "rejected", !.err = "fetch"]]
  /\ UNCHANGED <<xml, db, nextSeq, commits, afterFirst, exceptImport>>

\* An importer that would write whatever the walk produced, no rows included.
ImportParseUnchecked(c) ==
  /\ imp[c].pc = "fetching"
  /\ imp' = [imp EXCEPT ![c] =
               [@ EXCEPT !.pc = "writing",
                         !.rows = IF xml.wellFormed THEN ParseRows(xml.nodes)
                                  ELSE <<>>,
                         !.seq = nextSeq]]
  /\ nextSeq' = nextSeq + 1
  /\ UNCHANGED <<xml, db, commits, afterFirst, exceptImport>>

\* The text arrives: parse, walk, and either throw or issue putMany.
ImportParse(c) ==
  /\ imp[c].pc = "fetching"
  /\ IF ~xml.wellFormed
     THEN /\ imp' = [imp EXCEPT ![c] = [@ EXCEPT !.pc = "rejected", !.err = "parse"]]
          /\ UNCHANGED nextSeq
     ELSE LET rows == ParseRows(xml.nodes)
          IN  IF Len(rows) = 0
              THEN /\ imp' = [imp EXCEPT ![c] =
                               [@ EXCEPT !.pc = "rejected", !.err = "empty"]]
                   /\ UNCHANGED nextSeq
              ELSE /\ imp' = [imp EXCEPT ![c] =
                               [@ EXCEPT !.pc = "writing", !.rows = rows,
                                         !.seq = nextSeq]]
                   /\ nextSeq' = nextSeq + 1
  /\ UNCHANGED <<xml, db, commits, afterFirst, exceptImport>>

\* getChapterOffline: the verse store of a translation id
StoreOf(translationId) ==
  CASE translationId = "KJV" -> KJV_VERSES
    [] translationId = "ESV" -> ESV_VERSES

\* The transaction of call c is the oldest unfinished one on its store: no
\* putMany created before it is live there, and neither is a read of
\* openChapter that was created before it.
TxTurn(c) ==
  /\ imp[c].pc = "writing"
  /\ \A o \in Calls \ {c} :
        (imp[o].pc = "writing" /\ imp[o].store = imp[c].store)
          => imp[c].seq < imp[o].seq
  /\ \A o \in DOMAIN oc :
        (/\ oc[o].pc = "verses"
         /\ oc[o].translation \in {"KJV", "ESV"}
         /\ StoreOf(oc[o].translation) = imp[c].store)
          => imp[c].seq \in oc[o].behind

\* What a readwrite transaction leaves when requests 1..failed-1 were
\* carried out and it then aborted: an abort undoes them all.
Aborted(store, rows, failed) == store

\* An import that would report the records its write added to the store.
TxCompleteCountingAdded(c) ==
  /\ TxTurn(c)
  /\ LET s == imp[c].store
     IN  /\ db' = [db EXCEPT ![s] = PutAll(@, imp[c].rows)]
         /\ afterFirst' = IF commits[s] = 0
                            THEN [afterFirst EXCEPT ![s] = db'[s]]
                            ELSE afterFirst
         /\ commits' = [commits EXCEPT ![s] = @ + 1]
  /\ imp' = [imp EXCEPT ![c] =
               [@ EXCEPT !.pc = "resolved",
                         !.found = db[imp[c].store],
                         !.left = db'[imp[c].store],
                         !.result =
                           [verses |-> Len(db'[imp[c].store]) - Len(db[imp[c].store]),
                            books |-> BooksOf(imp[c].rows)]]]
  /\ UNCHANGED <<xml, nextSeq, exceptImport>>

\* A putMany that would write the rows into every verse store.
TxCompleteIntoEveryStore(c) ==
  /\ TxTurn(c)
  /\ LET s == imp[c].store
     IN  /\ db' = [o \in VerseStores |-> PutAll(db[o], imp[c].rows)]
         /\ afterFirst' = IF commits[s] = 0
                            THEN [afterFirst EXCEPT ![s] = db'[s]]
                            ELSE afterFirst
         /\ commits' = [commits EXCEPT ![s] = @ + 1]
  /\ imp' = [imp EXCEPT ![c] =
               [@ EXCEPT !.pc = "resolved",
                         !.found = db[imp[c].store],
                         !.left = db'[imp[c].store],
                         !.result = [verses |-> Len(imp[c].rows),
                                     books |-> BooksOf(imp[c].rows)]]]
  /\ UNCHANGED <<xml, nextSeq, exceptImport>>

\* putMany: every put succeeds and the transaction completes.
TxComplete(c) ==
  /\ TxTurn(c)
  /\ LET s == imp[c].store
     IN  /\ db' = [db EXCEPT ![s] = PutAll(@, imp[c].rows)]
         /\ afterFirst' = IF commits[s] = 0
                            THEN [afterFirst EXCEPT ![s] = db'[s]]
                            ELSE afterFirst
         /\ commits' = [commits EXCEPT ![s] = @ + 1]
  /\ imp' = [imp EXCEPT ![c] =
               [@ EXCEPT !.pc = "resolved",
                         !.found = db[imp[c].store],
                         !.left = db'[imp[c].store],
                         !.result = [verses |-> Len(imp[c].rows),
                                     books |-> BooksOf(imp[c].rows)]]]
  /\ UNCHANGED <<xml, nextSeq, exceptImport>>

\* putMany: a put request fails; its error event reaches
\* transaction.onerror, and the transaction aborts.
TxRequestError(c) ==
  /\ TxTurn(c)
  /\ \E failed \in 1..Len(imp[c].rows) :
        db' = [db EXCEPT ![imp[c].store] = Aborted(@, imp[c].rows, failed)]
  /\ imp' = [imp EXCEPT ![c] =
               [@ EXCEPT !.pc = "rejected", !.err = "write",
                         !.found = db[imp[c].store], !.left = db'[imp[c].store]]]
  /\ UNCHANGED <<xml, nextSeq, commits, afterFirst, exceptImport>>

\* putMany: every request succeeded and the commit fails (quota, disk):
\* only an abort event is fired, which putMany does not listen to.
TxCommitAbort(c) ==
  /\ TxTurn(c)
  /\ db' = [db EXCEPT ![imp[c].store] =
               Aborted(@, imp[c].rows, Len(imp[c].rows) + 1)]
  /\ imp' = [imp EXCEPT ![c] =
               [@ EXCEPT !.pc = "pending", !.err = "abort",
                         !.found = db[imp[c].store], !.left = db'[imp[c].store]]]
  /\ UNCHANGED <<xml, nextSeq, commits, afterFirst, exceptImport>>

NoChapter == [store |-> "", book |-> "", chapter |-> 0, verses |-> <<>>]
NoSearch ==
  [store |-> "", query |-> <<>>, limit |-> 0, hits |-> <<>>, transactions |-> 0]

InitQueryIdle ==
  /\ chapterRes = NoChapter
  /\ search = NoSearch

Togglers == {"t1", "t2"}

IdleToggle ==
  [pc |-> "idle", translation |-> "", book |-> "", chapter |-> 0, key |-> "",
   existing |-> Null, result |-> FALSE, found |-> Null, behind |-> {}, n |-> 0]

InitBookmarksIdle ==
  /\ now = 0
  /\ bookmarks = <<>>
  /\ tog = [t \in Togglers |-> IdleToggle]
  /\ toggled = <<>>
  /\ overlapped = {}

\* const state = { ... }
InitialState ==
  [translation |-> "KJV", book |-> "Genesis", chapter |-> 1, verses |-> <<>>,
   stylesMap |-> <<>>, selected |-> Null, selectedKey |-> ""]

\* Concurrent calls are told apart by number; a new call takes the lowest
\* number that is free.  openChapter has no guard against a call made while
\* another is in flight: two calls may overlap.
OpenCalls == {1, 2}
UpsertCalls == {3, 4}
SwitchCalls == {5, 7}

\* A page makes this many setTranslation calls at most: the bound of the
\* model on what may be done any number of times.
MaxPicks == 2

FirstIdle(calls, ids, id) ==
  /\ calls[id].pc = "idle"
  /\ \A other \in ids : calls[other].pc = "idle" => id <= other

IdleOpen ==
  [pc |-> "idle", translation |-> "", book |-> "", chapter |-> 0,
   behind |-> {}, verses |-> <<>>, map |-> <<>>]
IdleSwitch ==
  [pc |-> "idle", t |-> "", found |-> Null, commit |-> "none", after |-> {},
   bar |-> ""]
IdleUpsert == [pc |-> "idle", v |-> Null, key |-> "", next |-> Null, n |-> 0]

InitAppIdle ==
  /\ state = InitialState
  /\ rendered = <<>>
  /\ styles = <<>>
  /\ settings = <<>>
  /\ stylesTx = <<>>
  /\ oc = [o \in OpenCalls |-> IdleOpen]
  /\ st = [s \in SwitchCalls |-> IdleSwitch]
  /\ up = [u \in UpsertCalls |-> IdleUpsert]
  /\ upserts = <<>>

PackKinds == {"tags", "explain", "crossrefs"}
DiveCalls == {1, 2}

\* let _diveCrossrefs = null; let _diveExplain = null; let _diveTags = null
NotLoaded == [loaded |-> FALSE, entries |-> {}]

IdleDive ==
  [pc |-> "idle", kind |-> "", key |-> "", fetched |-> FALSE, result |-> Null]

InitDiveIdle ==
  /\ packFiles = [k \in PackKinds |-> {}]
  /\ memo = [k \in PackKinds |-> NotLoaded]
  /\ fetches = [k \in PackKinds |-> 0]
  /\ dive = [d \in DiveCalls |-> IdleDive]
  /\ diveCalls = 0

AdapterCalls == {1, 2}

IdleAdapter ==
  [pc |-> "idle", op |-> "", arg |-> Null, err |-> "", result |-> Null,
   found |-> <<>>, left |-> <<>>]

InitAdapterIdle ==
  /\ ad = [a \in AdapterCalls |-> IdleAdapter]
  /\ adTx = <<>>

SettingCalls == {1, 2}

IdleSetting ==
  [pc |-> "idle", op |-> "", key |-> "", value |-> "", result |-> Null,
   after |-> 0, overlap |-> FALSE, found |-> Null]

InitSettingsIdle ==
  /\ sg = [s \in SettingCalls |-> IdleSetting]
  /\ sgTx = <<>>
  /\ saved = <<>>

IdleBoot ==
  [pc |-> "none", db |-> Null, dbStatus |-> "", theme |-> "",
   themeBtn |-> FALSE, saves |-> <<>>,
   openDb |-> "", unhandled |-> FALSE, select |-> FALSE, asked |-> "",
   ensure |-> Null, imports |-> 0, bar |-> "", open |-> 0,
   lone |-> Null, picks |-> 0]

InitBootIdle == boot = IdleBoot

NoDatabase == [version |-> 0, stores |-> <<>>]

IdleOpenDb == [pc |-> "idle", found |-> NoDatabase]

InitUpgradeIdle ==
  /\ idb = NoDatabase
  /\ od = IdleOpenDb

NoDocument == [length |-> 0, skipEvery |-> 0]

IdleWalk ==
  [pc |-> "idle", doc |-> NoDocument, onProgress |-> FALSE, visited |-> 0,
   count |-> 0, rows |-> 0, reported |-> <<>>, verses |-> 0]

InitProgressIdle == walk = IdleWalk

\* state.notesFilter is "recent" when the page loads
IdleNotes ==
  [pc |-> "idle", filter |-> "recent", pending |-> 0, listed |-> FALSE,
   all |-> <<>>, shown |-> <<>>]

InitNotesIdle == notes = IdleNotes

IdleNormalize == [pc |-> "idle", text |-> <<>>, out |-> <<>>]

InitNormalizeIdle == nw = IdleNormalize

\* The fetch events the worker may be handling at once, told apart by
\* number
WorkerEvents == {1, 2}

\* No fetch event: the record of an event holds its request, what
\* caches.match and fetch gave, what became of its cache.put ("none" when
\* none was issued) and what respondWith was given.
NoEvent ==
  [pc |-> "idle", method |-> "", url |-> "", intercepted |-> FALSE,
   cached |-> Null, requests |-> 0, net |-> Null, put |-> "none",
   answer |-> Null]

IdleWorker ==
  [script |-> "", cache |-> <<>>, ev |-> [e \in WorkerEvents |-> NoEvent]]

InitWorkerIdle == sw = IdleWorker

\* The page before init has filled the selects: state's first book and
\* chapter, and a chapter select without options.
IdleNav == [book |-> "Genesis", chapter |-> 1, options |-> 0]

InitNavIdle == nav = IdleNav

InitImport ==
  /\ InitQueryIdle
  /\ InitBookmarksIdle
  /\ InitAppIdle
  /\ InitBootIdle
  /\ InitNavIdle
  /\ InitWorkerIdle
  /\ InitNormalizeIdle
  /\ InitNotesIdle
  /\ InitProgressIdle
  /\ InitUpgradeIdle
  /\ InitSettingsIdle
  /\ InitAdapterIdle
  /\ InitDiveIdle
  /\ xml \in Docs
  /\ db = [s \in VerseStores |-> <<>>]
  /\ imp = [c \in Calls |-> IdleCall]
  /\ nextSeq = 1
  /\ commits = [s \in VerseStores |-> 0]
  /\ afterFirst = [s \in VerseStores |-> <<>>]

NextImport ==
  \/ \E c \in Calls, s \in VerseStores : ImportStart(c, s)
  \/ \E c \in Calls : FetchFails(c)
  \/ \E c \in Calls : ImportParse(c)
  \/ \E c \in Calls : TxComplete(c)
  \/ \E c \in Calls : TxRequestError(c)
  \/ \E c \in Calls : TxCommitAbort(c)

SpecImport == InitImport /\ [][NextImport]_vars

\* ----------------------------------------------------- import: claims

\* C1: once a store that started empty has received two or more bulk
\* writes of the same document, it holds exactly the records (same keys,
\* same content, same count) it held after the first one.
C1_ImportIsIdempotent ==
  \A s \in VerseStores :
    commits[s] >= 2 =>
      /\ db[s] = afterFirst[s]
      /\ countStore(db[s]) = countStore(afterFirst[s])
      /\ StoreKeys(db[s]) = StoreKeys(afterFirst[s])

\* Both calls imported a document of two or more verses into kjv_verses.
C1_Witness ==
  /\ \A c \in Calls : imp[c].pc = "resolved" /\ imp[c].store = KJV_VERSES
  /\ commits[KJV_VERSES] = 2
  /\ countStore(db[KJV_VERSES]) >= 2

\* C2: in every verse store, two records at different places differ in
\* their key and in their (book, chapter, verse) triple.
C2_KeyUniqueness ==
  \A s \in VerseStores :
    \A i, j \in 1..Len(db[s]) :
      i # j =>
        /\ db[s][i].key # db[s][j].key
        /\ <<db[s][i].book, db[s][i].chapter, db[s][i].verse>>
             # <<db[s][j].book, db[s][j].chapter, db[s][j].verse>>

\* The document names one verse twice, with different texts, and has been
\* written twice into the store.
C2_Witness ==
  /\ commits[KJV_VERSES] = 2
  /\ xml.wellFormed
  /\ LET rows == ParseRows(xml.nodes)
     IN  \E i, j \in 1..Len(rows) :
           i < j /\ rows[i].key = rows[j].key /\ rows[i].text # rows[j].text

\* C10: an import whose bulk write failed has rejected, and its
\* transaction left the store with the records it found.
C10_FailedWriteRejectsAndRestores ==
  \A c \in Calls :
    imp[c].err \in {"write", "abort"} =>
      /\ imp[c].pc = "rejected"
      /\ imp[c].left = imp[c].found

\* --------------------------------------------------- chapters, search

\* IDBIndex.getAll([book, chapter]) on by_book_chapter: the records whose
\* index key equals the value, in primary-key order.
getAllByIndex(store, book, chapter) ==
  SelectSeq(store, LAMBDA r : r.book = book /\ r.chapter = chapter)

\* Array.prototype.sort((a, b) => a.verse - b.verse): a stable sort.
RECURSIVE InsertByVerse(_, _)
InsertByVerse(sorted, r) ==
  IF sorted = <<>> THEN <<r>>
  ELSE IF r.verse - Head(sorted).verse < 0 THEN <<r>> \o sorted
  ELSE <<Head(sorted)>> \o InsertByVerse(Tail(sorted), r)

RECURSIVE SortIntoByVerse(_, _)
SortIntoByVerse(sorted, rest) ==
  IF rest = <<>> THEN sorted
  ELSE SortIntoByVerse(InsertByVerse(sorted, Head(rest)), Tail(rest))

\* A chapter read that would return the index order as it is.
Unsorted(records) == records

SortByVerse(records) == SortIntoByVerse(<<>>, records)

getChapterFromStore(store, book, chapter) ==
  SortByVerse(getAllByIndex(store, book, chapter))

ChapterBooks == {"Genesis", "Exodus", "Leviticus"}
ChapterNumbers == {1, 2, 3}

GetChapter(s, book, chapter) ==
  /\ chapterRes' = [store |-> s, book |-> book, chapter |-> chapter,
                    verses |-> getChapterFromStore(db[s], book, chapter)]
  /\ UNCHANGED <<importVars, search, exceptQuery>>

\* (query || "").trim().toLowerCase(), without the trim
UntrimmedQuery(query) == toLowerCase(query)

\* (query || "").trim().toLowerCase()
SearchQuery(query) == toLowerCase(trim(query))

\* A cursor loop that would stop one hit too late.
RECURSIVE CursorScanLate(_, _, _, _)
CursorScanLate(records, q, limit, hits) ==
  IF records = <<>> \/ Len(hits) > limit THEN hits
  ELSE LET v == Head(records)
       IN  CursorScanLate(Tail(records), q, limit,
             IF includes(toLowerCase(v.text), q) THEN Append(hits, v) ELSE hits)

\* A cursor loop that would keep every record it visits.
RECURSIVE CursorScanKeepingAll(_, _, _, _)
CursorScanKeepingAll(records, q, limit, hits) ==
  IF records = <<>> \/ Len(hits) >= limit THEN hits
  ELSE CursorScanKeepingAll(Tail(records), q, limit,
                            Append(hits, Head(records)))

\* req.onsuccess of store.openCursor(): records is what the cursor has
\* still to visit, in primary-key order.
RECURSIVE CursorScan(_, _, _, _)
CursorScan(records, q, limit, hits) ==
  IF records = <<>> \/ Len(hits) >= limit THEN hits
  ELSE LET v == Head(records)
       IN  CursorScan(Tail(records), q, limit,
             IF includes(toLowerCase(v.text), q) THEN Append(hits, v) ELSE hits)

Queries ==
  { <<>>, <<" ">>, <<NBSP, "\t">>, <<"a">>, <<"B">>, <<" ", "a", " ">>,
    <<"A", " ", "b">>, <<"z">> }

\* searchTextCursor(db, storeName, query, limit)
SearchTextCursor(s, query, limit) ==
  /\ LET q == SearchQuery(query)
     IN  search' =
           IF q = <<>>
           THEN [store |-> s, query |-> query, limit |-> limit,
                 hits |-> <<>>, transactions |-> 0]
           ELSE [store |-> s, query |-> query, limit |-> limit,
                 hits |-> CursorScan(db[s], q, limit, <<>>),
                 transactions |-> 1]
  /\ UNCHANGED <<importVars, chapterRes, exceptQuery>>

\* A later session: kjv_verses holds what an import of the document left.
InitStored ==
  /\ xml \in Docs
  /\ db = [s \in VerseStores |->
            IF s = KJV_VERSES /\ xml.wellFormed
            THEN PutAll(<<>>, ParseRows(xml.nodes)) ELSE <<>>]
  /\ imp = [c \in Calls |-> IdleCall]
  /\ nextSeq = 1
  /\ commits = [s \in VerseStores |-> 0]
  /\ afterFirst = [s \in VerseStores |-> <<>>]
  /\ InitQueryIdle
  /\ InitBookmarksIdle
  /\ InitAppIdle
  /\ InitBootIdle
  /\ InitNavIdle
  /\ InitWorkerIdle
  /\ InitNormalizeIdle
  /\ InitNotesIdle
  /\ InitProgressIdle
  /\ InitUpgradeIdle
  /\ InitSettingsIdle
  /\ InitAdapterIdle
  /\ InitDiveIdle

NextChapter ==
  \E s \in VerseStores, book \in ChapterBooks, chapter \in ChapterNumbers :
    GetChapter(s, book, chapter)

SpecChapter == InitStored /\ [][NextChapter]_vars

NextSearch ==
  \E s \in VerseStores, query \in Queries, limit \in 0..MaxLimit :
    SearchTextCursor(s, query, limit)

SpecSearch == InitStored /\ [][NextSearch]_vars

\* ------------------------------------------------------------ bookmarks

\* A key that would carry the time of the call.
BookmarkKeyStamped(translation, book, chapter) ==
  translation \o "|" \o book \o "|" \o ToString(chapter) \o "|" \o ToString(now)

\* `${translation}|${book}|${chapter}`
bookmarkKey(translation, book, chapter) ==
  translation \o "|" \o book \o "|" \o ToString(chapter)

\* Array.prototype.sort((a, b) => b.savedAt - a.savedAt): a stable sort.
RECURSIVE InsertBySavedAt(_, _)
InsertBySavedAt(sorted, r) ==
  IF sorted = <<>> THEN <<r>>
  ELSE IF Head(sorted).savedAt - r.savedAt < 0 THEN <<r>> \o sorted
  ELSE <<Head(sorted)>> \o InsertBySavedAt(Tail(sorted), r)

RECURSIVE SortIntoBySavedAt(_, _)
SortIntoBySavedAt(sorted, rest) ==
  IF rest = <<>> THEN sorted
  ELSE SortIntoBySavedAt(InsertBySavedAt(sorted, Head(rest)), Tail(rest))

\* listBookmarks(db, translation): getAll, filter, sort
listBookmarks(store, translation) ==
  SortIntoBySavedAt(<<>>, SelectSeq(store, LAMBDA b : b.translation = translation))

Translations == {"KJV", "ESV"}
BookmarkBooks == {"Genesis"}
BookmarkChapters == {1, 2}

\* A call whose write transaction is alive: created, and neither committed
\* nor aborted.
Writing(t) == tog[t].pc \in {"writing", "committing"}

\* A transaction of call t has finished: nothing waits for it any more.
NoLongerBehind(calls, t) ==
  [o \in Togglers |-> [calls[o] EXCEPT !.behind = @ \ {t}]]

\* toggleBookmark(db, {translation, book, chapter}): the key is built and
\* getOne is issued; its read-only transaction runs after the write
\* transactions created before it (behind) and sees what they leave.
ToggleStart(t, translation, book, chapter) ==
  /\ tog[t].pc = "idle"
  /\ Len(toggled)
       + Cardinality({o \in Togglers : tog[o].pc \in {"reading", "writing"}})
       < MaxToggles
  /\ LET key == bookmarkKey(translation, book, chapter)
     IN  /\ tog' = [tog EXCEPT ![t] =
                      [IdleToggle EXCEPT
                         !.pc = "reading", !.translation = translation,
                         !.book = book, !.chapter = chapter, !.key = key,
                         !.existing = getOne(bookmarks, key),
                         !.behind = {o \in Togglers \ {t} : Writing(o)}]]
         /\ overlapped' =
              IF \E o \in Togglers \ {t} :
                   tog[o].pc \in {"reading", "writing"} /\ tog[o].key = key
              THEN overlapped \cup {key} ELSE overlapped
  /\ UNCHANGED <<now, bookmarks, toggled, exceptBookmarks>>

\* getOne has resolved: deleteOne or putOne is issued; its transaction
\* runs after every transaction on the store created before it.
ToggleWrite(t) ==
  /\ tog[t].pc = "reading"
  /\ tog[t].behind = {}
  /\ LET issued(pc, result) ==
           [NoLongerBehind(tog, t) EXCEPT ![t] =
              [@ EXCEPT !.pc = pc, !.result = result,
                        !.found = getOne(bookmarks, tog[t].key),
                        !.behind = {o \in Togglers \ {t} : tog[o].pc # "idle"}]]
     IN  IF tog[t].existing # Null
         THEN /\ bookmarks' = Delete(bookmarks, tog[t].key)
              /\ tog' = issued("writing", FALSE)
              /\ UNCHANGED now
         ELSE \E time \in now..Min(now + 1, MaxNow) :
                /\ now' = time
                /\ bookmarks' = Put(bookmarks,
                     [key |-> tog[t].key, translation |-> tog[t].translation,
                      book |-> tog[t].book, chapter |-> tog[t].chapter,
                      savedAt |-> time])
                /\ tog' = issued("writing", TRUE)
  /\ UNCHANGED <<toggled, overlapped, exceptBookmarks>>

\* The write request has succeeded: return false (removed) or true (added).
\* The transaction has still to commit.
ToggleReturn(t) ==
  /\ tog[t].pc = "writing"
  /\ tog[t].behind = {}
  /\ toggled' = Append(toggled,
       [translation |-> tog[t].translation, book |-> tog[t].book,
        chapter |-> tog[t].chapter, key |-> tog[t].key, result |-> tog[t].result,
        lost |-> FALSE])
  /\ tog' = [tog EXCEPT ![t] = [@ EXCEPT !.pc = "committing",
                                         !.n = Len(toggled) + 1]]
  /\ UNCHANGED <<now, bookmarks, overlapped, exceptBookmarks>>

\* The transaction of the write commits.
ToggleCommits(t) ==
  /\ tog[t].pc = "committing"
  /\ tog' = [NoLongerBehind(tog, t) EXCEPT ![t] = IdleToggle]
  /\ UNCHANGED <<now, bookmarks, toggled, overlapped, exceptBookmarks>>

\* The commit fails (quota, disk): the transaction aborts and its write is
\* undone, after toggleBookmark has returned.  The key is left as the
\* transaction found it, unless a write issued since is waiting behind it;
\* that write then finds what this one found, and so does a getOne that
\* is waiting behind it.
ToggleCommitFails(t) ==
  /\ tog[t].pc = "committing"
  /\ LET key == tog[t].key
         after(o) == o # t /\ t \in tog[o].behind /\ tog[o].key = key
     IN  /\ bookmarks' =
              IF \E o \in Togglers : after(o) /\ tog[o].pc = "writing"
              THEN bookmarks
              ELSE Undo(bookmarks, key, tog[t].found)
         /\ tog' = [NoLongerBehind(
                      [o \in Togglers |->
                         IF after(o) /\ tog[o].pc = "writing"
                         THEN [tog[o] EXCEPT !.found = tog[t].found]
                         ELSE IF after(o) /\ tog[o].pc = "reading"
                         THEN [tog[o] EXCEPT !.existing = tog[t].found]
                         ELSE tog[o]], t)
                    EXCEPT ![t] = IdleToggle]
  /\ toggled' = [toggled EXCEPT ![tog[t].n].lost = TRUE]
  /\ UNCHANGED <<now, overlapped, exceptBookmarks>>

InitBookmarks ==
  /\ xml = [wellFormed |-> TRUE, nodes |-> <<>>]
  /\ db = [s \in VerseStores |-> <<>>]
  /\ imp = [c \in Calls |-> IdleCall]
  /\ nextSeq = 1
  /\ commits = [s \in VerseStores |-> 0]
  /\ afterFirst = [s \in VerseStores |-> <<>>]
  /\ InitQueryIdle
  /\ InitBookmarksIdle
  /\ InitAppIdle
  /\ InitBootIdle
  /\ InitNavIdle
  /\ InitWorkerIdle
  /\ InitNormalizeIdle
  /\ InitNotesIdle
  /\ InitProgressIdle
  /\ InitUpgradeIdle
  /\ InitSettingsIdle
  /\ InitAdapterIdle
  /\ InitDiveIdle

NextBookmarks ==
  \/ \E t \in Togglers, translation \in Translations,
        book \in BookmarkBooks, chapter \in BookmarkChapters :
        ToggleStart(t, translation, book, chapter)
  \/ \E t \in Togglers : ToggleWrite(t)
  \/ \E t \in Togglers : ToggleReturn(t)
  \/ \E t \in Togglers : ToggleCommits(t)
  \/ \E t \in Togglers : ToggleCommitFails(t)

SpecBookmarks == InitBookmarks /\ [][NextBookmarks]_vars

\* ----------------------------------------------------- queries: claims

Records(seq) == {seq[i] : i \in 1..Len(seq)}

\* C3: the list returned for (store, book, chapter) holds exactly the
\* records of that store with that book and chapter, each once, in
\* strictly ascending verse order.
C3_ChapterIsFilteredAndAscending ==
  chapterRes.store # "" =>
    LET vs   == chapterRes.verses
        want == {r \in Records(db[chapterRes.store]) :
                   r.book = chapterRes.book /\ r.chapter = chapterRes.chapter}
    IN  /\ Records(vs) = want
        /\ Len(vs) = Cardinality(want)
        /\ \A i \in 1..(Len(vs) - 1) : vs[i].verse < vs[i + 1].verse

\* Verse 10 is stored before verse 2 and returned after it.
C3_Witness ==
  /\ chapterRes.store = KJV_VERSES
  /\ Len(chapterRes.verses) = 2
  /\ chapterRes.verses[1].verse = 2 /\ chapterRes.verses[2].verse = 10
  /\ \E i, j \in 1..Len(db[KJV_VERSES]) :
        i < j /\ db[KJV_VERSES][i].verse = 10 /\ db[KJV_VERSES][j].verse = 2

IsBlank(query) == \A i \in 1..Len(query) : IsSpace(query[i])

\* C8 as stated: for a non-blank query the hits are the min(m, limit)
\* matching records with the smallest keys, in ascending key order, m being
\* the number of records whose lower-cased text contains the query, the
\* query being the one the caller supplied, lower-cased.
C8_FirstMatchesOfQueryAsSupplied ==
  (search.store # "" /\ ~IsBlank(search.query)) =>
    LET hits  == search.hits
        q     == toLowerCase(search.query)
        match == {r \in Records(db[search.store]) : includes(toLowerCase(r.text), q)}
        m     == Cardinality(match)
    IN  /\ Len(hits) = Min(m, search.limit)
        /\ Records(hits) \subseteq match
        /\ \A i \in 1..(Len(hits) - 1) :
              KeyLeq(hits[i], hits[i + 1]) /\ hits[i].key # hits[i + 1].key
        /\ \A r \in match \ Records(hits) : \A h \in Records(hits) : KeyLeq(h, r)
        /\ m <= search.limit => Records(hits) = match
        /\ m > search.limit => Len(hits) = search.limit

\* C8, amended: for a non-blank query the hits are the min(m, limit)
\* matching records with the smallest keys, in ascending key order, m being
\* the number of records whose lower-cased text contains the query after it
\* was trimmed of leading and trailing white space and lower-cased.
C8_SearchReturnsFirstMatches ==
  (search.store # "" /\ ~IsBlank(search.query)) =>
    LET hits  == search.hits
        q     == toLowerCase(trim(search.query))
        match == {r \in Records(db[search.store]) : includes(toLowerCase(r.text), q)}
        m     == Cardinality(match)
    IN  /\ Len(hits) = Min(m, search.limit)
        /\ Records(hits) \subseteq match
        /\ \A i \in 1..(Len(hits) - 1) :
              KeyLeq(hits[i], hits[i + 1]) /\ hits[i].key # hits[i + 1].key
        /\ \A r \in match \ Records(hits) : \A h \in Records(hits) : KeyLeq(h, r)
        /\ m <= search.limit => Records(hits) = match
        /\ m > search.limit => Len(hits) = search.limit

\* Three records match and the cap of two cuts the list.
C8_Witness ==
  /\ search.store = KJV_VERSES
  /\ search.limit = 2
  /\ Len(search.hits) = 2
  /\ Cardinality({r \in Records(db[KJV_VERSES]) :
        includes(toLowerCase(r.text), toLowerCase(trim(search.query)))}) = 3

\* C9: a call with an empty or white-space-only query returns the empty
\* list and has opened no transaction.
C9_BlankQueryTouchesNoStorage ==
  (search.store # "" /\ IsBlank(search.query)) =>
    /\ search.hits = <<>>
    /\ search.transactions = 0

\* A white-space-only query on a store that holds records.
C9_Witness ==
  /\ search.store = KJV_VERSES
  /\ search.query = <<NBSP, "\t">>
  /\ Len(db[KJV_VERSES]) > 0
  /\ search.hits = <<>>

\* --------------------------------------------------- bookmarks: claims

\* The results of the completed calls on a key, in completion order.
RECURSIVE ResultsOn(_, _)
ResultsOn(calls, key) ==
  IF calls = <<>> THEN <<>>
  ELSE IF Head(calls).key = key
       THEN <<Head(calls).result>> \o ResultsOn(Tail(calls), key)
       ELSE ResultsOn(Tail(calls), key)

ListsChapter(list, book, chapter) ==
  \E i \in 1..Len(list) : list[i].book = book /\ list[i].chapter = chapter

\* A write of a call on the key was undone by a failed commit.
LostOn(key) ==
  \E i \in 1..Len(toggled) : toggled[i].key = key /\ toggled[i].lost

\* C6: while no two calls on a chapter have overlapped, its calls reported
\* added, removed, added, ... in turn, and whenever none is in flight
\* listBookmarks(translation) lists the chapter exactly if the last call
\* reported added.
C6_ToggleAlternates ==
  \A translation \in Translations, book \in BookmarkBooks,
     chapter \in BookmarkChapters :
    LET key == translation \o "|" \o book \o "|" \o ToString(chapter)
        rs  == ResultsOn(toggled, key)
    IN  key \notin overlapped =>
          /\ \A i \in 1..Len(rs) : rs[i] = (i % 2 = 1)
          /\ (\A t \in Togglers : tog[t].pc = "idle" \/ tog[t].key # key) =>
                (ListsChapter(listBookmarks(bookmarks, translation), book, chapter)
                   <=> (rs # <<>> /\ rs[Len(rs)]))

\* C7: the bookmarks store never holds two records of one
\* (translation, book, chapter).
C7_OneBookmarkPerChapter ==
  \A i, j \in 1..Len(bookmarks) :
    i # j =>
      <<bookmarks[i].translation, bookmarks[i].book, bookmarks[i].chapter>>
        # <<bookmarks[j].translation, bookmarks[j].book, bookmarks[j].chapter>>

\* Two overlapping calls both found no bookmark and both added one.
C7_Witness ==
  /\ "KJV|Genesis|1" \in overlapped
  /\ ResultsOn(toggled, "KJV|Genesis|1") = <<TRUE, TRUE>>
  /\ Len(bookmarks) = 1

\* ------------------------------------------------------- app.js: model

\* What a template literal prints for v[f]; "undefined" for a missing field.
Shown(v, f) ==
  IF f \notin DOMAIN v THEN Undefined
  ELSE IF f = "book" THEN v.book
  ELSE ToString(v[f])

\* x[f] === v[f]
SameField(x, v, f) ==
  IF f \in DOMAIN x /\ f \in DOMAIN v THEN x[f] = v[f]
  ELSE f \notin DOMAIN x /\ f \notin DOMAIN v

\* { ...a, ...b }
Spread(a, b) ==
  [f \in DOMAIN a \cup DOMAIN b |-> IF f \in DOMAIN b THEN b[f] ELSE a[f]]

\* `${translation}|${book}|${chapter}|${verse}`, the parts already printed
verseStyleKey(translation, book, chapter, verse) ==
  translation \o "|" \o book \o "|" \o chapter \o "|" \o verse

StyleKeyOf(translation, v) ==
  verseStyleKey(translation, Shown(v, "book"), Shown(v, "chapter"),
                Shown(v, "verse"))

\* A Map is the sequence of its entries' values in insertion order; every
\* value stored in state.stylesMap carries its own key.
MapHas(map, key) == \E i \in 1..Len(map) : map[i].key = key

MapGet(map, key) == map[CHOOSE i \in 1..Len(map) : map[i].key = key]

MapSet(map, key, value) ==
  IF MapHas(map, key)
  THEN [i \in 1..Len(map) |-> IF map[i].key = key THEN value ELSE map[i]]
  ELSE Append(map, value)

getChapterOffline(stores, translationId, book, chapter) ==
  IF translationId \in {"KJV", "ESV"}
  THEN getChapterFromStore(stores[StoreOf(translationId)], book, chapter)
  ELSE <<>>

\* getStylesForChapter: the by_ref index holds the records that have all of
\* translation, book and chapter; the Map is filled in key order.
getStylesForChapter(store, translation, book, chapter) ==
  SelectSeq(store, LAMBDA r :
    /\ {"translation", "book", "chapter"} \subseteq DOMAIN r
    /\ r.translation = translation /\ r.book = book /\ r.chapter = chapter)

\* A write that would leave the new record alone in the store.
SaveVerseStyleAlone(store, style, t) == <<Spread(style, [updatedAt |-> t])>>

\* saveVerseStyle: putOne of { ...style, updatedAt: Date.now() }
saveVerseStyle(store, style, t) == Put(store, Spread(style, [updatedAt |-> t]))

\* Date.now() does not run backwards
Ticks(t) == {t, Min(t + 1, MaxNow)}

\* A transaction on verse_styles finishes once every transaction created
\* before it has, except that read-only transactions do not wait for each
\* other.
TxPlace(id) == CHOOSE i \in 1..Len(stylesTx) : stylesTx[i].id = id

CanFinish(id) ==
  \A i \in 1..(TxPlace(id) - 1) :
    stylesTx[i].mode = "readonly" /\ stylesTx[TxPlace(id)].mode = "readonly"

TxDone(id) == SelectSeq(stylesTx, LAMBDA x : x.id # id)

\* A transaction on verse_styles: the call that created it (0 once the
\* call has gone on and the transaction has still to commit), its mode,
\* and for a write the key, the record found under it and the number of
\* the upsert.
ReadTx(id) ==
  [id |-> id, mode |-> "readonly", key |-> "", found |-> Null, n |-> 0]

WriteTx(id, key, found, n) ==
  [id |-> id, mode |-> "readwrite", key |-> key, found |-> found, n |-> n]

AppBooks == {"Genesis"}
AppChapters == {1, 2}
Patches == {[bookmarked |-> TRUE], [note |-> "x"]}

\* The putMany transactions that are live on the verse store of a
\* translation id, by their creation numbers.
WritingOn(translationId) ==
  IF translationId \in {"KJV", "ESV"}
  THEN {imp[c].seq : c \in {w \in Calls : /\ imp[w].pc = "writing"
                                          /\ imp[w].store = StoreOf(translationId)}}
  ELSE {}

\* openChapter up to its first await: getChapterOffline creates a read-only
\* transaction on the verse store of the translation selected at the call and
\* asks for the chapter; the request is carried out once the read-write
\* transactions created before it on that store have finished.
OpenChapterBegins(o, book, chapter) ==
  /\ FirstIdle(oc, OpenCalls, o)
  /\ state' = [state EXCEPT !.book = book, !.chapter = chapter,
                            !.selected = Null, !.selectedKey = ""]
  /\ rendered' = <<>>
  /\ oc' = [oc EXCEPT ![o] =
              [pc |-> "verses", translation |-> state.translation,
               book |-> book, chapter |-> chapter,
               behind |-> WritingOn(state.translation),
               verses |-> <<>>, map |-> <<>>]]

\* The book and chapter selects, Prev/Next and the result lists all end in
\* openChapter(book, chapter).
OpenChapter(o, book, chapter) ==
  /\ OpenChapterBegins(o, book, chapter)
  /\ UNCHANGED <<styles, settings, stylesTx, st, up, upserts, now, exceptApp>>

\* The read of openChapter is carried out and the verses arrive: none, and
\* openChapter returns; some, and it asks for the chapter's styles under the
\* translation selected by now, which the call keeps as the translation of
\* its pending read.
OpenChapterLoaded(o) ==
  /\ oc[o].pc = "verses"
  /\ oc[o].behind \cap WritingOn(oc[o].translation) = {}
  /\ LET verses == getChapterOffline(db, oc[o].translation,
                                     oc[o].book, oc[o].chapter)
     IN  IF verses = <<>>
         THEN /\ rendered' = <<>>
              /\ oc' = [oc EXCEPT ![o] = IdleOpen]
              /\ UNCHANGED stylesTx
         ELSE /\ oc' = [oc EXCEPT ![o].pc = "styles", ![o].behind = {},
                                  ![o].translation = state.translation,
                                  ![o].verses = verses,
                                  ![o].map = getStylesForChapter(styles,
                                     state.translation, oc[o].book,
                                     oc[o].chapter)]
              /\ stylesTx' = Append(stylesTx, ReadTx(o))
              /\ UNCHANGED rendered
  /\ UNCHANGED <<state, styles, settings, st, up, upserts, now, exceptApp>>

\* The request of getChapterOffline fails: the catch of openChapter puts
\* "Could not load chapter" in place of the verses and returns; the styles
\* are not asked for and state.verses stays as it was.
OpenChapterFails(o) ==
  /\ oc[o].pc = "verses"
  /\ rendered' = <<>>
  /\ oc' = [oc EXCEPT ![o] = IdleOpen]
  /\ UNCHANGED <<state, styles, settings, stylesTx, st, up, upserts, now,
                 exceptApp>>

\* The styles arrived: cache them, merge them into the verses, render.
OpenChapterStyles(o) ==
  /\ oc[o].pc = "styles"
  /\ CanFinish(o)
  /\ LET map == oc[o].map
         merged == [i \in 1..Len(oc[o].verses) |->
                      LET v == oc[o].verses[i]
                          key == StyleKeyOf(state.translation, v)
                      IN  Spread(v, [style |-> IF MapHas(map, key)
                                               THEN MapGet(map, key)
                                               ELSE Null])]
     IN  /\ state' = [state EXCEPT !.stylesMap = map, !.verses = merged]
         /\ rendered' = merged
  /\ stylesTx' = TxDone(o)
  /\ oc' = [oc EXCEPT ![o] = IdleOpen]
  /\ UNCHANGED <<styles, settings, st, up, upserts, now, exceptApp>>

\* A selectVerse that would start an empty annotation for the verse.
SelectVerseCreating(i) ==
  /\ i \in 1..Len(rendered)
  /\ LET v == rendered[i]
         key == Shown(v, "book") \o "|" \o Shown(v, "chapter") \o "|"
                  \o Shown(v, "verse")
     IN  /\ state' = [state EXCEPT !.selected = v, !.selectedKey = key]
         /\ styles' = Put(styles,
                          [key |-> StyleKeyOf(state.translation, v),
                           translation |-> state.translation,
                           book |-> v.book, chapter |-> v.chapter,
                           verse |-> v.verse, color |-> "none", note |-> ""])
  /\ rendered' = state.verses
  /\ UNCHANGED <<settings, stylesTx, oc, st, up, upserts, now, exceptApp>>

\* selectVerse(v), v being the verse of the row clicked
SelectVerse(i) ==
  /\ i \in 1..Len(rendered)
  /\ LET v == rendered[i]
         key == Shown(v, "book") \o "|" \o Shown(v, "chapter") \o "|"
                  \o Shown(v, "verse")
     IN  IF state.selectedKey # "" /\ key = state.selectedKey
         THEN state' = [state EXCEPT !.selected = Null, !.selectedKey = ""]
         ELSE state' = [state EXCEPT !.selected = v, !.selectedKey = key]
  /\ rendered' = state.verses
  /\ UNCHANGED <<styles, settings, stylesTx, oc, st, up, upserts, now,
                 exceptApp>>

\* `${count} verses`
Verses(count) == ToString(count) \o " verses"

\* The setTranslation calls whose put on the settings store has still to
\* commit or abort.
SavingTranslation == {s \in SwitchCalls : st[s].commit = "pending"}

\* setTranslation up to its first await: the new id is in state at once,
\* and the setting is written; the put's transaction has still to commit,
\* after the transactions of the puts made before it.  Nothing keeps a call
\* from being made while another is in flight, or after one was rejected.
\* Of a call that overlaps no other the page's record keeps what was
\* selected and saved before it.
SetTranslation(s, t) ==
  /\ boot.picks < MaxPicks
  /\ FirstIdle(st, SwitchCalls, s)
  /\ state' = [state EXCEPT !.translation = t]
  /\ settings' = Put(settings, [key |-> "translation", value |-> t])
  /\ st' = [st EXCEPT ![s] =
              [pc |-> "saving", t |-> t,
               found |-> getOne(settings, "translation"),
               commit |-> "pending", after |-> SavingTranslation,
               bar |-> ""]]
  /\ boot' = [boot EXCEPT !.picks = @ + 1, !.lone =
                IF \A other \in SwitchCalls : st[other].pc = "idle"
                THEN [t |-> t, failed |-> FALSE,
                      before |-> [translation |-> state.translation,
                                  setting |-> getOne(settings,
                                                     "translation")]]
                ELSE Null]
  /\ UNCHANGED <<rendered, styles, stylesTx, oc, up, upserts, now,
                 exceptAppAndBoot>>

\* The put's request succeeded, which it does once the transactions of the
\* earlier puts are over, and saveSetting resolved:
\* updateBottomBarForTranslation takes the store of state.translation and
\* awaits its count.
SetTranslationSaved(s) ==
  /\ st[s].pc = "saving"
  /\ st[s].after = {}
  /\ st' = [st EXCEPT ![s].pc = "bottomBar",
                      ![s].bar = StoreOf(state.translation)]
  /\ UNCHANGED <<state, rendered, styles, settings, stylesTx, oc, up, upserts,
                 now, exceptApp>>

\* The count is there: updateBottomBarForTranslation writes #dbStatus, and
\* ensureTranslationImported(t) awaits the count of t's store.
SetTranslationBar(s) ==
  /\ st[s].pc = "bottomBar"
  /\ boot' = [boot EXCEPT !.dbStatus =
                st[s].bar \o " (" \o Verses(countStore(db[st[s].bar])) \o ")"]
  /\ st' = [st EXCEPT ![s].pc = "ensure", ![s].bar = ""]
  /\ UNCHANGED <<state, rendered, styles, settings, stylesTx, oc, up, upserts,
                 now, exceptAppAndBoot>>

\* The count fails: the catch of updateBottomBarForTranslation ignores it,
\* #dbStatus stays as it was, and setTranslation goes on to
\* ensureTranslationImported(t).
SetTranslationBarFails(s) ==
  /\ st[s].pc = "bottomBar"
  /\ st' = [st EXCEPT ![s].pc = "ensure", ![s].bar = ""]
  /\ UNCHANGED <<state, rendered, styles, settings, stylesTx, oc, up, upserts,
                 now, exceptApp>>

\* The record of a setTranslation call whose awaits are over: the slot is
\* free once the put's transaction has ended too.
SwitchOver(call) ==
  IF call.commit = "pending" THEN [call EXCEPT !.pc = "returned"]
  ELSE IdleSwitch

\* ensureTranslationImported found the verse store filled (ensureKJVImported
\* writes the count to #dbStatus): setTranslation ends in
\* openChapter(state.book, state.chapter).
SetTranslationOpens(s, o) ==
  /\ st[s].pc = "ensure"
  /\ countStore(db[StoreOf(st[s].t)]) > 0
  /\ boot' =
       IF st[s].t = "KJV"
       THEN [boot EXCEPT !.lone = Null,
                         !.dbStatus =
               "KJV imported ("
                 \o Verses(countStore(db[StoreOf(st[s].t)])) \o ")"]
       ELSE [boot EXCEPT !.lone = Null]
  /\ OpenChapterBegins(o, state.book, state.chapter)
  /\ st' = [st EXCEPT ![s] = SwitchOver(@)]
  /\ UNCHANGED <<styles, settings, stylesTx, up, upserts, now,
                 exceptAppAndBoot>>

\* The records of the calls once the transaction of s's put is over.
PutOver(calls, s) ==
  [x \in SwitchCalls |->
     IF x = s
     THEN IF calls[x].pc = "returned" THEN IdleSwitch
          ELSE [calls[x] EXCEPT !.commit = "over", !.found = Null]
     ELSE [calls[x] EXCEPT !.after = @ \ {s}]]

\* The transaction of saveSetting's put commits.
SetTranslationCommits(s) ==
  /\ st[s].commit = "pending"
  /\ st[s].pc # "saving"
  /\ st' = PutOver(st, s)
  /\ UNCHANGED <<state, rendered, styles, settings, stylesTx, oc, up, upserts,
                 now, exceptApp>>

\* The commit fails: the transaction aborts and the put is undone, after
\* saveSetting has resolved; state.translation stays.  A put made since
\* waits behind it: its value is in the store once it is carried out, and
\* what it replaces is what the undone put had replaced.
SetTranslationCommitFails(s) ==
  /\ st[s].commit = "pending"
  /\ st[s].pc # "saving"
  /\ LET next == {x \in SwitchCalls : st[x].after = {s}}
     IN  IF next = {}
         THEN /\ settings' = Undo(settings, "translation", st[s].found)
              /\ st' = PutOver(st, s)
         ELSE /\ settings' = settings
              /\ st' = PutOver([x \in SwitchCalls |->
                                  IF x \in next
                                  THEN [st[x] EXCEPT !.found = st[s].found]
                                  ELSE st[x]], s)
  /\ UNCHANGED <<state, rendered, styles, stylesTx, oc, up, upserts, now,
                 exceptApp>>

\* The book, chapter and verse fields an object has
Locator(v) == [f \in {"book", "chapter", "verse"} \cap DOMAIN v |-> v[f]]

\* The record upsertSelectedStyle merges the patch over when the cache has
\* none under the key
DefaultStyle(key, translation, v) ==
  Spread([f \in {"book", "chapter", "verse"} \cap DOMAIN v |-> v[f]],
         [key |-> key, translation |-> translation, color |-> "none",
          underline |-> FALSE, bold |-> FALSE, bookmarked |-> FALSE,
          note |-> "", noteType |-> "study", noteFavorite |-> FALSE])

\* upsertSelectedStyle(patch) up to its await: the base record comes from
\* state.stylesMap, the clock is read once for next and once more for the
\* record written.
UpsertSelectedStyle(u, patch) ==
  /\ FirstIdle(up, UpsertCalls, u)
  /\ state.selected # Null
  /\ Len(upserts) < MaxUpserts
  /\ LET v == state.selected
         key == StyleKeyOf(state.translation, v)
         current == IF MapHas(state.stylesMap, key)
                    THEN MapGet(state.stylesMap, key)
                    ELSE DefaultStyle(key, state.translation, v)
     IN  \E t1 \in Ticks(now) : \E t2 \in Ticks(t1) :
           LET next == Spread(Spread(current, patch), [updatedAt |-> t1])
           IN  /\ styles' = saveVerseStyle(styles, next, t2)
               /\ now' = t2
               /\ up' = [up EXCEPT ![u] =
                           [pc |-> "saving", v |-> v, key |-> key,
                            next |-> next, n |-> Len(upserts) + 1]]
               /\ upserts' =
                    Append([i \in 1..Len(upserts) |->
                              IF upserts[i].key = key /\ ~upserts[i].done
                              THEN [upserts[i] EXCEPT !.overlap = TRUE]
                              ELSE upserts[i]],
                           [key |-> key, patch |-> patch,
                            translation |-> state.translation,
                            v |-> Locator(v),
                            prior |-> getOne(styles, key),
                            grew |-> Len(styles') - Len(styles),
                            written |-> Spread(next, [updatedAt |-> t2]),
                            done |-> FALSE, lost |-> FALSE,
                            overlap |-> \E j \in 1..Len(upserts) :
                              upserts[j].key = key /\ ~upserts[j].done])
               /\ stylesTx' = Append(stylesTx,
                    WriteTx(u, key, getOne(styles, key), Len(upserts) + 1))
  /\ UNCHANGED <<state, rendered, settings, oc, st, exceptApp>>

\* The write request succeeded: cache next, patch the verse list and the
\* selection, render.  The transaction has still to commit.
UpsertSaved(u) ==
  /\ up[u].pc = "saving"
  /\ CanFinish(u)
  /\ LET v == up[u].v
         next == up[u].next
         patched == [i \in 1..Len(state.verses) |->
                       LET x == state.verses[i]
                       IN  IF /\ SameField(x, v, "book")
                              /\ SameField(x, v, "chapter")
                              /\ SameField(x, v, "verse")
                           THEN Spread(x, [style |-> next])
                           ELSE x]
     IN  /\ state' = [state EXCEPT
                        !.stylesMap = MapSet(@, up[u].key, next),
                        !.verses = patched,
                        !.selected = IF @ = Null THEN [style |-> next]
                                     ELSE Spread(@, [style |-> next])]
         /\ rendered' = patched
  /\ upserts' = [upserts EXCEPT ![up[u].n].done = TRUE]
  /\ stylesTx' = [i \in 1..Len(stylesTx) |->
                    IF stylesTx[i].id = u THEN [stylesTx[i] EXCEPT !.id = 0]
                    ELSE stylesTx[i]]
  /\ up' = [up EXCEPT ![u] = IdleUpsert]
  /\ UNCHANGED <<styles, settings, oc, st, now, exceptApp>>

\* The transaction of a write is the oldest on verse_styles and its request
\* has succeeded.
Committing == stylesTx # <<>> /\ stylesTx[1].id = 0

\* The transaction of the put, or of the delete, commits.
StyleCommits ==
  /\ Committing
  /\ stylesTx' = Tail(stylesTx)
  /\ UNCHANGED <<state, rendered, styles, settings, oc, st, up, upserts, now,
                 exceptApp>>

\* What getStylesForChapter(translation, book, chapter) answers when the
\* record it was to find under a key is the one an aborted transaction
\* found there: what the aborted put added or replaced is gone from the
\* answer, and what the transaction found under the key (the record the
\* aborted delete removed, or the one the aborted put replaced) is in it
\* when it is a record of the chapter.
MapUndo(map, key, found, translation, book, chapter) ==
  LET without == SelectSeq(map, LAMBDA x : x.key # key)
  IN  IF found = Null THEN without
      ELSE getStylesForChapter(Put(without, found), translation, book, chapter)

\* The commit fails (quota, disk): the transaction aborts and its write is
\* undone, after its caller has gone on.  The key is left as the
\* transaction found it, unless a write issued since is waiting behind it;
\* the first such write then replaces what this one found, and a read that
\* waits with no such write before it sees what this one found.
StyleCommitFails ==
  /\ Committing
  /\ LET tx == stylesTx[1]
         rest == Tail(stylesTx)
         puts == {i \in 1..Len(rest) :
                    rest[i].mode = "readwrite" /\ rest[i].key = tx.key}
         first == CHOOSE i \in puts : \A j \in puts : i <= j
         sees(o) == \E i \in 1..Len(rest) :
                      /\ rest[i].id = o /\ rest[i].mode = "readonly"
                      /\ \A j \in puts : i < j
     IN  /\ styles' = IF puts = {} THEN Undo(styles, tx.key, tx.found)
                      ELSE styles
         /\ stylesTx' = [i \in 1..Len(rest) |->
                           IF puts # {} /\ i = first
                           THEN [rest[i] EXCEPT !.found = tx.found]
                           ELSE rest[i]]
         /\ upserts' = [i \in 1..Len(upserts) |->
                          IF i = tx.n THEN [upserts[i] EXCEPT !.lost = TRUE]
                          ELSE IF puts # {} /\ i = rest[first].n
                          THEN [upserts[i] EXCEPT
                                  !.prior = tx.found,
                                  !.grew = IF tx.found = Null THEN 1 ELSE 0]
                          ELSE upserts[i]]
         /\ oc' = [o \in OpenCalls |->
                     IF oc[o].pc = "styles" /\ sees(o)
                     THEN [oc[o] EXCEPT !.map =
                             MapUndo(@, tx.key, tx.found, oc[o].translation,
                                     oc[o].book, oc[o].chapter)]
                     ELSE oc[o]]
  /\ UNCHANGED <<state, rendered, settings, st, up, now, exceptApp>>

\* removeVerseStyle is exported by the providers and called by no handler of
\* the page; its calls are told apart from the page's calls by their numbers.
RemoveCalls == {6}

\* removeVerseStyle(db, translation, book, chapter, verse): deleteOne under
\* the verse's annotation key, in a transaction of its own.
RemoveVerseStyle(r, translation, book, chapter, verse) ==
  /\ \A i \in 1..Len(stylesTx) : stylesTx[i].id \notin RemoveCalls
  /\ LET key == verseStyleKey(translation, book, ToString(chapter),
                              ToString(verse))
     IN  /\ styles' = Delete(styles, key)
         /\ stylesTx' = Append(stylesTx,
                               WriteTx(r, key, getOne(styles, key), 0))
  /\ UNCHANGED <<state, rendered, settings, oc, st, up, upserts, now,
                 exceptApp>>

\* The delete request succeeded: deleteOne resolves, and so does
\* removeVerseStyle.  The transaction has still to commit.
RemoveVerseStyleResolves(r) ==
  /\ \E i \in 1..Len(stylesTx) : stylesTx[i].id = r
  /\ CanFinish(r)
  /\ stylesTx' = [i \in 1..Len(stylesTx) |->
                    IF stylesTx[i].id = r
                    THEN [stylesTx[i] EXCEPT !.id = 0]
                    ELSE stylesTx[i]]
  /\ UNCHANGED <<state, rendered, styles, settings, oc, st, up, upserts, now,
                 exceptApp>>

\* A later session: both verse stores are imported, nothing is annotated,
\* and init is about to open Genesis 1.
AppRows ==
  [s \in VerseStores |->
     IF s = KJV_VERSES
     THEN << Row("Genesis", 1, 1, <<"a">>), Row("Genesis", 2, 1, <<"a">>) >>
     ELSE << Row("Genesis", 1, 1, <<"b">>) >>]

InitApp ==
  /\ xml = [wellFormed |-> TRUE, nodes |-> <<>>]
  /\ db = [s \in VerseStores |-> PutAll(<<>>, AppRows[s])]
  /\ imp = [c \in Calls |-> IdleCall]
  /\ nextSeq = 1
  /\ commits = [s \in VerseStores |-> 0]
  /\ afterFirst = [s \in VerseStores |-> <<>>]
  /\ InitQueryIdle
  /\ InitBookmarksIdle
  /\ InitAppIdle
  /\ InitBootIdle
  /\ InitNavIdle
  /\ InitWorkerIdle
  /\ InitNormalizeIdle
  /\ InitNotesIdle
  /\ InitProgressIdle
  /\ InitUpgradeIdle
  /\ InitSettingsIdle
  /\ InitAdapterIdle
  /\ InitDiveIdle

\* The page with one translation: chapters opened, verses selected,
\* annotations written.
NextApp ==
  \/ \E o \in OpenCalls, book \in AppBooks, chapter \in AppChapters :
        OpenChapter(o, book, chapter)
  \/ \E o \in OpenCalls : OpenChapterLoaded(o)
  \/ \E o \in OpenCalls : OpenChapterFails(o)
  \/ \E o \in OpenCalls : OpenChapterStyles(o)
  \/ \E i \in 1..Len(rendered) : SelectVerse(i)
  \/ \E u \in UpsertCalls, patch \in Patches : UpsertSelectedStyle(u, patch)
  \/ \E u \in UpsertCalls : UpsertSaved(u)
  \/ StyleCommits
  \/ StyleCommitFails

SpecApp == InitApp /\ [][NextApp]_vars

\* The page with its translations: chapters opened, verses selected, the
\* translation switched.
NextPage ==
  \/ \E o \in OpenCalls, book \in AppBooks, chapter \in AppChapters :
        OpenChapter(o, book, chapter)
  \/ \E o \in OpenCalls : OpenChapterLoaded(o)
  \/ \E o \in OpenCalls : OpenChapterFails(o)
  \/ \E o \in OpenCalls : OpenChapterStyles(o)
  \/ \E i \in 1..Len(rendered) : SelectVerse(i)
  \/ \E s \in SwitchCalls, t \in Translations : SetTranslation(s, t)
  \/ \E s \in SwitchCalls : SetTranslationSaved(s)
  \/ \E s \in SwitchCalls : SetTranslationBar(s)
  \/ \E s \in SwitchCalls : SetTranslationBarFails(s)
  \/ \E s \in SwitchCalls, o \in OpenCalls : SetTranslationOpens(s, o)
  \/ \E s \in SwitchCalls : SetTranslationCommits(s)
  \/ \E s \in SwitchCalls : SetTranslationCommitFails(s)

SpecPage == InitApp /\ [][NextPage]_vars

\* --------------------------------------------------- annotations: claims

OnKey(key) == {i \in 1..Len(upserts) : upserts[i].key = key}

UpsertKeys == {upserts[i].key : i \in 1..Len(upserts)}

Settled(key) == \A i \in OnKey(key) : upserts[i].done

\* A write on the key was undone by a commit that failed
Lost(key) == \E i \in OnKey(key) : upserts[i].lost

\* The step is the abort of an upsert's transaction
UpsertUndone ==
  \E i \in 1..Len(upserts) : ~upserts[i].lost /\ upserts'[i].lost

Max(S) == CHOOSE x \in S : \A y \in S : y <= x

\* C4: when the upserts on one annotation key did not overlap and have all
\* completed, none of them undone by a failed commit, every field some
\* patch named has, in the record stored under the key, the value the
\* latest patch naming it gave: after {bookmarked: true} then {note: "x"}
\* the record has both.
C4_SequentialUpsertsKeepFields ==
  \A key \in UpsertKeys :
    (Settled(key) /\ ~Lost(key) /\ \A i \in OnKey(key) : ~upserts[i].overlap) =>
      /\ getOne(styles, key) # Null
      /\ \A i \in OnKey(key) : \A f \in DOMAIN upserts[i].patch :
           LET last == Max({j \in OnKey(key) : f \in DOMAIN upserts[j].patch})
           IN  getOne(styles, key)[f] = upserts[last].patch[f]

\* C5: when upserts on one key overlapped and have all completed, the
\* record stored under the key is the whole record the last of the writes
\* put there, and no write on the key carries a later updatedAt.
C5_LastWriteWinsWhole ==
  \A key \in UpsertKeys :
    (Settled(key) /\ \E i \in OnKey(key) : upserts[i].overlap) =>
      LET last == upserts[Max(OnKey(key))].written
      IN  /\ getOne(styles, key) = last
          /\ \A i \in OnKey(key) :
               upserts[i].written.updatedAt <= last.updatedAt

\* ----------------------------------------------- import: failure claims

EarlyErrors == {"fetch", "parse", "empty"}

NothingToImport == ~xml.wellFormed \/ ParseRows(xml.nodes) = <<>>

\* C11: a call whose fetch failed, whose document is not well-formed or
\* whose walk produced no row is rejected, has created no transaction, and
\* the step that rejects it leaves every verse store as it was; while the
\* document is in one of the last two cases no call gets past the fetch
\* any other way and the stores stay untouched.
C11_EarlyFailureWritesNothing ==
  /\ [](\A c \in Calls :
         /\ (NothingToImport /\ imp[c].pc \notin {"idle", "fetching"}) =>
               (imp[c].pc = "rejected" /\ imp[c].err \in EarlyErrors)
         /\ (imp[c].pc = "rejected" /\ imp[c].err \in EarlyErrors) =>
               (imp[c].seq = 0 /\ imp[c].rows = <<>>)
         /\ NothingToImport => db = [s \in VerseStores |-> <<>>])
  /\ [][\A c \in Calls :
          (imp[c].pc # "rejected" /\ imp'[c].pc = "rejected"
             /\ imp'[c].err \in EarlyErrors) =>
            (db' = db /\ nextSeq' = nextSeq)]_vars

\* One call's fetch failed after the other call had imported a document
\* into the same store, which still holds what that import wrote.
C11_Witness ==
  /\ imp["c1"].pc = "resolved" /\ imp["c1"].store = KJV_VERSES
  /\ imp["c2"].pc = "rejected" /\ imp["c2"].err = "fetch"
  /\ imp["c2"].store = KJV_VERSES
  /\ db[KJV_VERSES] # <<>>
  /\ db[KJV_VERSES] = imp["c1"].left

\* C12: a resolved import reports as verses the number of records it
\* wrote, which after an import into an empty store is countStore of that
\* store, and as books the number of distinct books among those records.
C12_ResultCountsWrittenRecords ==
  \A c \in Calls :
    imp[c].pc = "resolved" =>
      LET written == PutAll(<<>>, imp[c].rows)
      IN  /\ imp[c].result.verses = countStore(written)
          /\ imp[c].found = <<>> =>
                imp[c].result.verses = countStore(imp[c].left)
          /\ imp[c].result.books = BooksOf(written)

\* A verse node that is to produce a record
Importable(n) ==
  /\ n.book \in 1..66
  /\ n.chapter # 0
  /\ n.verse # 0
  /\ normalizeWhitespace(n.text) # <<>>

\* C23: the rows an import has built are, in document order, one per
\* verse node with a book number of the table, a non-zero chapter and verse
\* number and a non-empty normalized text, each with the table's name for
\* its book, its numbers, its normalized text and the key
\* name|chapter|verse; every other node leaves no row.  A node that is
\* passed over raises nothing: the import rejects before the write only
\* for a failed fetch, a document that is not well-formed, or a document
\* without any importable node.
C23_RowsAreTheImportableVerses ==
  \A c \in Calls :
    LET kept == SelectSeq(xml.nodes, Importable)
    IN  /\ imp[c].pc \in {"writing", "resolved", "pending"} =>
             /\ Len(imp[c].rows) = Len(kept)
             /\ \A i \in 1..Len(kept) :
                  LET r == imp[c].rows[i]
                  IN  /\ r.book = BOOKS[kept[i].book]
                      /\ r.chapter = kept[i].chapter
                      /\ r.verse = kept[i].verse /\ r.verse # 0
                      /\ r.text = normalizeWhitespace(kept[i].text)
                      /\ r.text # <<>>
                      /\ r.key = r.book \o "|" \o ToString(r.chapter)
                                   \o "|" \o ToString(r.verse)
        /\ imp[c].err = "parse" => ~xml.wellFormed
        /\ imp[c].err = "empty" => xml.wellFormed /\ kept = <<>>
        /\ (imp[c].pc = "rejected" /\ xml.wellFormed /\ kept # <<>>) =>
             imp[c].err \in {"fetch", "write"}

\* A document of three verse nodes, one importable, one with verse number
\* 0 and one under a book number without a name, was imported: one record.
C23_Witness ==
  /\ Len(xml.nodes) = 3
  /\ \E i, j \in 1..3 :
       /\ xml.nodes[i].verse = 0 /\ xml.nodes[i].book = 1
       /\ xml.nodes[j].book = 0
  /\ \E c \in Calls :
       /\ imp[c].pc = "resolved"
       /\ Len(imp[c].rows) = 1
       /\ countStore(db[imp[c].store]) = 1

\* The records the cursor of the last search tested: all of them when the
\* cap was not reached, else those up to the last hit
Tested(store, hits, limit) ==
  IF Len(hits) < limit THEN Records(store)
  ELSE {store[i] : i \in {i \in 1..Len(store) :
                            \E j \in i..Len(store) : store[j] \in Records(hits)}}

\* C24 as stated: every hit holds, lower-cased, the lower-cased query with
\* its leading and trailing spaces.
C24_HitsContainQueryAsSupplied ==
  search.store # "" =>
    \A h \in Records(search.hits) :
      includes(toLowerCase(h.text), toLowerCase(search.query))

\* C24: every hit holds, lower-cased, the lower-cased query without its
\* leading and trailing white space, and no record that was tested and
\* left out does.
C24_HitsContainTrimmedQuery ==
  (search.store # "" /\ ~IsBlank(search.query)) =>
    LET q == toLowerCase(trim(search.query))
    IN  /\ \A h \in Records(search.hits) : includes(toLowerCase(h.text), q)
        /\ \A r \in Tested(db[search.store], search.hits, search.limit)
                      \ Records(search.hits) :
             ~includes(toLowerCase(r.text), q)

\* The query " a " has a hit whose text holds "a" and not " a ", found
\* after a record that does not hold "a".
C24_Witness ==
  /\ search.store = KJV_VERSES
  /\ search.query = <<" ", "a", " ">>
  /\ Len(search.hits) >= 1
  /\ ~includes(toLowerCase(search.hits[1].text), toLowerCase(search.query))
  /\ db[KJV_VERSES][1] \notin Records(search.hits)

\* ------------------------------------------- annotations: more claims

IsVerse(v) == {"book", "chapter", "verse"} \subseteq DOMAIN v

\* C13: an upsert on a selected verse under whose annotation key nothing
\* was stored adds exactly one record under that key
\* (translation|book|chapter|verse); the record names the verse and holds
\* the defaults, overridden by the patch, and an updatedAt stamp.
C13_FirstUpsertWritesDefaultsAndPatch ==
  \A i \in 1..Len(upserts) :
    LET u == upserts[i]
    IN  (u.prior = Null /\ IsVerse(u.v)) =>
          /\ u.key = u.translation \o "|" \o u.v.book \o "|"
                       \o ToString(u.v.chapter) \o "|" \o ToString(u.v.verse)
          /\ u.grew = 1
          /\ u.written.updatedAt \in 0..MaxNow
          /\ [f \in DOMAIN u.written \ {"updatedAt"} |-> u.written[f]] =
               Spread([key |-> u.key, translation |-> u.translation,
                       book |-> u.v.book, chapter |-> u.v.chapter,
                       verse |-> u.v.verse, color |-> "none",
                       underline |-> FALSE, bold |-> FALSE,
                       bookmarked |-> FALSE, note |-> "",
                       noteType |-> "study", noteFavorite |-> FALSE],
                      u.patch)

\* C14: verse_styles changes only in the step in which an upsert issues
\* its write or in which the write's transaction aborts; the first leaves
\* every record under another key as it was, so that the styles of every
\* chapter that does not hold the written key read the same before and
\* after, and so does the second for the key whose write it undoes.
C14_UpsertLeavesOtherKeysAlone ==
  [][/\ styles' # styles =>
          \/ \E u \in UpsertCalls : up[u].pc = "idle" /\ up'[u].pc = "saving"
          \/ UpsertUndone
     /\ UpsertUndone =>
          \A i \in 1..Len(upserts) :
            (~upserts[i].lost /\ upserts'[i].lost) =>
              WithoutKey(styles', upserts[i].key)
                = WithoutKey(styles, upserts[i].key)
     /\ \A u \in UpsertCalls :
          (up[u].pc = "idle" /\ up'[u].pc = "saving") =>
            /\ WithoutKey(styles', up'[u].key) = WithoutKey(styles, up'[u].key)
            /\ \A t \in Translations, b \in AppBooks, c \in AppChapters :
                 up'[u].key \notin StoreKeys(getStylesForChapter(styles', t, b, c))
                   => getStylesForChapter(styles', t, b, c)
                        = getStylesForChapter(styles, t, b, c)]_vars

\* Two upserts on different keys have completed and the record of the
\* first is still what the first one wrote.
C14_Witness ==
  /\ Len(upserts) = 2
  /\ upserts[1].done /\ upserts[2].done
  /\ stylesTx = <<>>
  /\ upserts[1].key # upserts[2].key
  /\ Len(styles) = 2
  /\ getOne(styles, upserts[1].key) = upserts[1].written

verseKey(book, chapter, verse) ==
  book \o "|" \o ToString(chapter) \o "|" \o ToString(verse)

\* What the packs hold for a verse they know: a list of tags, an
\* explanation object, a list of references.
EntryValue(kind) ==
  CASE kind = "tags" -> <<"hope">>
    [] kind = "explain" -> [plain |-> "p"]
    [] kind = "crossrefs" -> <<[book |-> "Exodus", chapter |-> 1, verse |-> 1]>>

\* pack[key] || [], pack[key] || null
EmptyValue(kind) == IF kind = "explain" THEN Null ELSE <<>>

HasEntry(entries, key) == \E e \in entries : e.key = key

Lookup(entries, kind, key) ==
  IF HasEntry(entries, key)
  THEN (CHOOSE e \in entries : e.key = key).value
  ELSE EmptyValue(kind)

\* Each file either knows Genesis 1:1 or is an empty object.
PackFiles == [PackKinds -> {{}, {"Genesis|1|1"}}]

DiveVerses == {1, 2}

\* getDive*(book, chapter, verse): answer from the memo when it is set,
\* otherwise fetch the file.
GetDive(d, kind, book, chapter, verse) ==
  /\ dive[d].pc = "idle"
  /\ \A other \in DiveCalls : dive[other].pc = "idle" => d <= other
  /\ diveCalls < MaxDiveCalls
  /\ diveCalls' = diveCalls + 1
  /\ IF memo[kind].loaded
     THEN /\ dive' = [dive EXCEPT ![d] =
                        [pc |-> "done", kind |-> kind,
                         key |-> verseKey(book, chapter, verse),
                         fetched |-> FALSE,
                         result |-> Lookup(memo[kind].entries, kind,
                                           verseKey(book, chapter, verse))]]
          /\ UNCHANGED fetches
     ELSE /\ dive' = [dive EXCEPT ![d] =
                        [pc |-> "fetching", kind |-> kind,
                         key |-> verseKey(book, chapter, verse),
                         fetched |-> TRUE, result |-> Null]]
          /\ fetches' = [fetches EXCEPT ![kind] = @ + 1]
  /\ UNCHANGED <<packFiles, memo, exceptDive>>

\* loadJsonOnce: the response is ok and its body is the pack.
FetchOk(d) ==
  /\ dive[d].pc = "fetching"
  /\ LET kind == dive[d].kind
         entries == {[key |-> k, value |-> EntryValue(kind)] :
                       k \in packFiles[kind]}
     IN  /\ memo' = [memo EXCEPT ![kind] = [loaded |-> TRUE, entries |-> entries]]
         /\ dive' = [dive EXCEPT ![d].pc = "done",
                                 ![d].result = Lookup(entries, kind, dive[d].key)]
  /\ UNCHANGED <<packFiles, fetches, diveCalls, exceptDive>>

\* loadJsonOnce: !res.ok, so null, and the memo becomes {}.
FetchNotOk(d) ==
  /\ dive[d].pc = "fetching"
  /\ memo' = [memo EXCEPT ![dive[d].kind] = [loaded |-> TRUE, entries |-> {}]]
  /\ dive' = [dive EXCEPT ![d].pc = "done",
                          ![d].result = EmptyValue(dive[d].kind)]
  /\ UNCHANGED <<packFiles, fetches, diveCalls, exceptDive>>

\* loadJsonOnce: fetch rejects (no network, nothing cached) or res.json()
\* throws on a body that is not JSON; nothing catches it.
FetchRejects(d) ==
  /\ dive[d].pc = "fetching"
  /\ dive' = [dive EXCEPT ![d].pc = "rejected"]
  /\ UNCHANGED <<packFiles, memo, fetches, diveCalls, exceptDive>>

\* The caller has its answer.
DiveSettled(d) ==
  /\ dive[d].pc \in {"done", "rejected"}
  /\ dive' = [dive EXCEPT ![d] = IdleDive]
  /\ UNCHANGED <<packFiles, memo, fetches, diveCalls, exceptDive>>

InitDive ==
  /\ xml = [wellFormed |-> TRUE, nodes |-> <<>>]
  /\ db = [s \in VerseStores |-> <<>>]
  /\ imp = [c \in Calls |-> IdleCall]
  /\ nextSeq = 1
  /\ commits = [s \in VerseStores |-> 0]
  /\ afterFirst = [s \in VerseStores |-> <<>>]
  /\ InitQueryIdle
  /\ InitBookmarksIdle
  /\ InitAppIdle
  /\ InitBootIdle
  /\ InitNavIdle
  /\ InitWorkerIdle
  /\ InitNormalizeIdle
  /\ InitNotesIdle
  /\ InitProgressIdle
  /\ InitUpgradeIdle
  /\ InitSettingsIdle
  /\ InitAdapterIdle
  /\ packFiles \in PackFiles
  /\ memo = [k \in PackKinds |-> NotLoaded]
  /\ fetches = [k \in PackKinds |-> 0]
  /\ dive = [d \in DiveCalls |-> IdleDive]
  /\ diveCalls = 0

NextDive ==
  \/ \E d \in DiveCalls, kind \in PackKinds, verse \in DiveVerses :
        GetDive(d, kind, "Genesis", 1, verse)
  \/ \E d \in DiveCalls : FetchOk(d)
  \/ \E d \in DiveCalls : FetchNotOk(d)
  \/ \E d \in DiveCalls : FetchRejects(d)
  \/ \E d \in DiveCalls : DiveSettled(d)

SpecDive == InitDive /\ [][NextDive]_vars

\* ------------------------------------------------ dive packs: claims

\* C15: the file of a pack kind is fetched at most once, whatever the
\* order in which the calls for that kind start and finish.
C15_PackFetchedAtMostOnce ==
  \A kind \in PackKinds : fetches[kind] <= 1

\* C16: a lookup of a verse the pack file has no entry for ends resolved
\* with the empty value of its kind ([] or null), never rejected.
C16_MissingEntryResolvesEmpty ==
  \A d \in DiveCalls :
    (dive[d].pc \in {"done", "rejected"}
       /\ dive[d].key \notin packFiles[dive[d].kind]) =>
      (dive[d].pc = "done" /\ dive[d].result = EmptyValue(dive[d].kind))

\* ----------------------------------------------- store adapter: model

AdapterOps ==
  {"countStore", "putOne", "putMany", "getOne", "getAll", "getAllByIndex",
   "deleteOne", "searchTextCursor"}

AdapterRows ==
  {Row("Genesis", 1, 1, <<"a">>), Row("Genesis", 1, 2, <<"a", "b">>)}

AdapterKeys == {r.key : r \in AdapterRows}

\* The arguments each function is called with, after db and storeName
AdapterArgs(op) ==
  CASE op = "putOne" -> {[row |-> r] : r \in AdapterRows}
    [] op = "putMany" ->
         {[rows |-> rs] : rs \in [1..1 -> AdapterRows] \cup [1..2 -> AdapterRows]}
    [] op \in {"getOne", "deleteOne"} -> {[key |-> k] : k \in AdapterKeys}
    [] op = "getAllByIndex" -> {[book |-> "Genesis", chapter |-> 1]}
    [] op = "searchTextCursor" -> {[query |-> <<"b">>, limit |-> 1]}
    [] OTHER -> {Null}

\* storeTx(db, storeName, mode)
AdapterMode(op) ==
  IF op \in {"putOne", "putMany", "deleteOne"} THEN "readwrite" ELSE "readonly"

\* What the function's requests leave in the store when they succeed
AdapterEffect(op, arg, store) ==
  CASE op = "putOne" -> Put(store, arg.row)
    [] op = "putMany" -> PutAll(store, arg.rows)
    [] op = "deleteOne" -> Delete(store, arg.key)
    [] OTHER -> store

\* What the promise resolves with
AdapterResult(op, arg, store) ==
  CASE op = "countStore" -> countStore(store)
    [] op = "getOne" -> getOne(store, arg.key)
    [] op = "getAll" -> store
    [] op = "getAllByIndex" -> getAllByIndex(store, arg.book, arg.chapter)
    [] op = "searchTextCursor" ->
         CursorScan(store, SearchQuery(arg.query), arg.limit, <<>>)
    [] OTHER -> TRUE

\* A transaction runs once every transaction created before it on the
\* store has finished; read-only ones do not wait for each other.
InTurn(queue, id) ==
  LET place == CHOOSE i \in 1..Len(queue) : queue[i].id = id
  IN  \A i \in 1..(place - 1) :
        queue[i].mode = "readonly" /\ queue[place].mode = "readonly"

\* The function is called: it creates its transaction and its requests.
AdapterCall(a, op, arg) ==
  /\ FirstIdle(ad, AdapterCalls, a)
  /\ ad' = [ad EXCEPT ![a] = [IdleAdapter EXCEPT !.pc = "request",
                                                !.op = op, !.arg = arg]]
  /\ adTx' = Append(adTx, [id |-> a, mode |-> AdapterMode(op)])
  /\ UNCHANGED <<db, exceptAdapter>>

AdapterRuns(a) == ad[a].pc = "request" /\ InTurn(adTx, a)

AdapterEnds(a, pc, err, store) ==
  /\ db' = [db EXCEPT ![KJV_VERSES] = store]
  /\ ad' = [ad EXCEPT ![a] =
              [@ EXCEPT !.pc = pc, !.err = err,
                        !.result = IF pc = "resolved"
                                   THEN AdapterResult(ad[a].op, ad[a].arg,
                                                      db[KJV_VERSES])
                                   ELSE Null,
                        !.found = db[KJV_VERSES], !.left = store]]
  /\ adTx' = SelectSeq(adTx, LAMBDA x : x.id # a)
  /\ UNCHANGED exceptAdapter

\* The transaction of call a is still alive.
AdapterTxLive(a) == \E i \in 1..Len(adTx) : adTx[i].id = a

\* req.onsuccess (for searchTextCursor the one that ends the loop): the
\* promise resolves.  A read-only transaction has nothing left to do; the
\* transaction of putOne or deleteOne holds the write and has still to
\* commit.
RequestSucceeds(a) ==
  /\ AdapterRuns(a)
  /\ ad[a].op # "putMany"
  /\ IF AdapterMode(ad[a].op) = "readonly"
     THEN AdapterEnds(a, "resolved", "", db[KJV_VERSES])
     ELSE /\ db' = [db EXCEPT ![KJV_VERSES] =
                      AdapterEffect(ad[a].op, ad[a].arg, @)]
          /\ ad' = [ad EXCEPT ![a] =
                      [@ EXCEPT !.pc = "resolved", !.result = TRUE,
                                !.found = db[KJV_VERSES],
                                !.left = db'[KJV_VERSES]]]
          /\ UNCHANGED <<adTx, exceptAdapter>>

\* putOne, deleteOne: the transaction commits after the promise resolved.
TransactionCompletes(a) ==
  /\ ad[a].pc = "resolved"
  /\ AdapterTxLive(a)
  /\ adTx' = SelectSeq(adTx, LAMBDA x : x.id # a)
  /\ UNCHANGED <<db, ad, exceptAdapter>>

\* putMany: every put succeeded and the transaction committed;
\* transaction.oncomplete resolves.
PutManyCompletes(a) ==
  /\ AdapterRuns(a)
  /\ ad[a].op = "putMany"
  /\ AdapterEnds(a, "resolved", "",
                 AdapterEffect(ad[a].op, ad[a].arg, db[KJV_VERSES]))

\* A request fails: its error event reaches req.onerror, and for putMany
\* bubbles to transaction.onerror; the promise rejects, the transaction
\* aborts.
RequestFails(a) ==
  /\ AdapterRuns(a)
  /\ AdapterEnds(a, "rejected", "request", db[KJV_VERSES])

\* The transaction is aborted while a request is pending: the request
\* gets an error event (AbortError), handled as above.
TransactionAborts(a) ==
  /\ AdapterRuns(a)
  /\ AdapterEnds(a, "rejected", "abort", db[KJV_VERSES])

\* Every request succeeded and the commit fails (quota, disk): the
\* transaction gets an abort event only and its writes are undone.  For
\* putMany neither oncomplete nor onerror is ever called; putOne and
\* deleteOne have resolved by then and listen to no event of the
\* transaction.
CommitFails(a) ==
  \/ /\ AdapterRuns(a)
     /\ ad[a].op = "putMany"
     /\ AdapterEnds(a, "unsettled", "abort", db[KJV_VERSES])
  \/ /\ ad[a].pc = "resolved"
     /\ AdapterTxLive(a)
     /\ db' = [db EXCEPT ![KJV_VERSES] = ad[a].found]
     /\ ad' = [ad EXCEPT ![a] = [@ EXCEPT !.err = "abort", !.left = ad[a].found]]
     /\ adTx' = SelectSeq(adTx, LAMBDA x : x.id # a)
     /\ UNCHANGED exceptAdapter

\* The caller has the outcome.
AdapterReturns(a) ==
  /\ ad[a].pc \in {"resolved", "rejected"}
  /\ ~AdapterTxLive(a)
  /\ ad' = [ad EXCEPT ![a] = IdleAdapter]
  /\ UNCHANGED <<db, adTx, exceptAdapter>>

InitAdapter ==
  /\ xml = [wellFormed |-> TRUE, nodes |-> <<>>]
  /\ \E rows \in {<<>>} \cup [1..1 -> AdapterRows] \cup [1..2 -> AdapterRows] :
       db = [s \in VerseStores |->
               IF s = KJV_VERSES THEN PutAll(<<>>, rows) ELSE <<>>]
  /\ imp = [c \in Calls |-> IdleCall]
  /\ nextSeq = 1
  /\ commits = [s \in VerseStores |-> 0]
  /\ afterFirst = [s \in VerseStores |-> <<>>]
  /\ InitQueryIdle
  /\ InitBookmarksIdle
  /\ InitAppIdle
  /\ InitBootIdle
  /\ InitNavIdle
  /\ InitWorkerIdle
  /\ InitNormalizeIdle
  /\ InitNotesIdle
  /\ InitProgressIdle
  /\ InitUpgradeIdle
  /\ InitSettingsIdle
  /\ InitDiveIdle
  /\ InitAdapterIdle

Settles(a) ==
  \/ RequestSucceeds(a)
  \/ TransactionCompletes(a)
  \/ PutManyCompletes(a)
  \/ RequestFails(a)
  \/ TransactionAborts(a)
  \/ CommitFails(a)

NextAdapter ==
  \/ \E a \in AdapterCalls, op \in AdapterOps :
        \E arg \in AdapterArgs(op) : AdapterCall(a, op, arg)
  \/ \E a \in AdapterCalls : RequestSucceeds(a)
  \/ \E a \in AdapterCalls : TransactionCompletes(a)
  \/ \E a \in AdapterCalls : PutManyCompletes(a)
  \/ \E a \in AdapterCalls : RequestFails(a)
  \/ \E a \in AdapterCalls : TransactionAborts(a)
  \/ \E a \in AdapterCalls : CommitFails(a)
  \/ \E a \in AdapterCalls : AdapterReturns(a)

SpecAdapter == InitAdapter /\ [][NextAdapter]_vars

\* IndexedDB finishes every transaction it has started: the one whose
\* turn it is gets one of its outcomes.
SpecAdapterFair ==
  SpecAdapter /\ \A a \in AdapterCalls : WF_vars(Settles(a))

\* ---------------------------------------------- store adapter: claims

\* C17: every call of a store-adapter function is eventually resolved or
\* rejected, whatever the outcome of its transaction.
C17_EveryOperationSettles ==
  \A a \in AdapterCalls :
    (ad[a].pc = "request") ~> (ad[a].pc \in {"resolved", "rejected"})

\* C19: a deleteOne that was not hit by a storage failure resolves (with
\* true), key present or not; it leaves a store without the key, the very
\* store it found when the key was not there, so that deleting the key
\* again changes nothing more.
C19_DeleteIsIdempotent ==
  \A a \in AdapterCalls :
    (ad[a].op = "deleteOne" /\ ad[a].pc \in {"resolved", "rejected"}) =>
      /\ ad[a].pc = "rejected" => ad[a].err \in {"request", "abort"}
      /\ ad[a].pc = "resolved" => ad[a].result = TRUE /\ ad[a].err \in {"", "abort"}
      /\ (ad[a].pc = "resolved" /\ ad[a].err = "abort") => ad[a].left = ad[a].found
      /\ (ad[a].pc = "resolved" /\ ad[a].err = "") =>
            /\ ad[a].arg.key \notin StoreKeys(ad[a].left)
            /\ \A i \in 1..Len(ad[a].found) :
                 ad[a].found[i].key # ad[a].arg.key =>
                   \E j \in 1..Len(ad[a].left) : ad[a].left[j] = ad[a].found[i]
            /\ ad[a].arg.key \notin StoreKeys(ad[a].found) =>
                  ad[a].left = ad[a].found
            /\ Delete(ad[a].left, ad[a].arg.key) = ad[a].left

\* Genesis 1:1 was deleted twice in a row from a store that held it and
\* another verse: both calls resolved, the second one changed nothing.
C19_Witness ==
  /\ \A a \in AdapterCalls :
       /\ ad[a].op = "deleteOne" /\ ad[a].pc = "resolved" /\ ad[a].err = ""
       /\ ad[a].arg.key = "Genesis|1|1"
  /\ "Genesis|1|1" \in StoreKeys(ad[1].found)
  /\ ad[2].found = ad[1].left
  /\ ad[2].left = ad[2].found
  /\ Len(ad[2].left) = 1

\* ------------------------------------------------ settings (providers.js)

MaxSaves == 3

SettingKeys == {"theme", "translation"}

\* The values the application saves under each key
SettingValues(key) ==
  IF key = "theme" THEN {"dark", "light"} ELSE {"KJV", "ESV"}

\* loadSetting: row ? row.value : null.  A string s is written
\* [string |-> s], which tells it from null.
loadSetting(store, key) ==
  LET row == getOne(store, key)
  IN  IF row # Null THEN [string |-> row.value] ELSE Null

\* saveSetting: putOne(db, SETTINGS, { key, value })
saveSetting(store, key, value) == Put(store, [key |-> key, value |-> value])

SavesPending(key) ==
  {s \in SettingCalls :
     sg[s].pc = "request" /\ sg[s].op = "saveSetting" /\ sg[s].key = key}

\* saveSetting is called: putOne creates its transaction and its request.
SaveSetting(s, key, value) ==
  /\ FirstIdle(sg, SettingCalls, s)
  /\ Len(saved)
       + Cardinality(UNION {SavesPending(k) : k \in SettingKeys}) < MaxSaves
  /\ sg' = [sg EXCEPT ![s] = [IdleSetting EXCEPT !.pc = "request",
                                                !.op = "saveSetting",
                                                !.key = key, !.value = value,
                                                !.after = Len(saved)]]
  /\ sgTx' = Append(sgTx, [id |-> s, mode |-> "readwrite"])
  /\ UNCHANGED <<settings, saved, exceptSettings>>

\* loadSetting is called: getOne creates its transaction and its request.
LoadSetting(s, key) ==
  /\ FirstIdle(sg, SettingCalls, s)
  /\ sg' = [sg EXCEPT ![s] = [IdleSetting EXCEPT !.pc = "request",
                                                !.op = "loadSetting",
                                                !.key = key,
                                                !.after = Len(saved),
                                                !.overlap =
                                                  SavesPending(key) # {}]]
  /\ sgTx' = Append(sgTx, [id |-> s, mode |-> "readonly"])
  /\ UNCHANGED <<settings, saved, exceptSettings>>

\* The transaction of call s is still alive.
SettingTxLive(s) == \E i \in 1..Len(sgTx) : sgTx[i].id = s

\* req.onsuccess of the put: putOne resolves, and so does saveSetting; the
\* transaction holds the write and has still to commit.
SaveSettingResolves(s) ==
  /\ sg[s].pc = "request" /\ sg[s].op = "saveSetting"
  /\ InTurn(sgTx, s)
  /\ settings' = saveSetting(settings, sg[s].key, sg[s].value)
  /\ saved' = Append(saved, [key |-> sg[s].key, value |-> sg[s].value,
                             lost |-> FALSE])
  /\ sg' = [sg EXCEPT ![s].pc = "resolved",
                      ![s].found = getOne(settings, sg[s].key)]
  /\ UNCHANGED <<sgTx, exceptSettings>>

\* The transaction of the put commits.
SaveSettingCommits(s) ==
  /\ sg[s].pc = "resolved" /\ sg[s].op = "saveSetting"
  /\ SettingTxLive(s)
  /\ sgTx' = SelectSeq(sgTx, LAMBDA x : x.id # s)
  /\ UNCHANGED <<settings, sg, saved, exceptSettings>>

\* The commit fails (quota, disk): the transaction aborts and its put is
\* undone; saveSetting has resolved and nothing tells its caller.
SaveSettingCommitFails(s) ==
  /\ sg[s].pc = "resolved" /\ sg[s].op = "saveSetting"
  /\ SettingTxLive(s)
  /\ settings' = Undo(settings, sg[s].key, sg[s].found)
  /\ saved' = [saved EXCEPT ![Len(saved)].lost = TRUE]
  /\ sgTx' = SelectSeq(sgTx, LAMBDA x : x.id # s)
  /\ UNCHANGED <<sg, exceptSettings>>

\* req.onsuccess of the get: getOne resolves with the record or null, and
\* loadSetting with its value or null.
LoadSettingResolves(s) ==
  /\ sg[s].pc = "request" /\ sg[s].op = "loadSetting"
  /\ InTurn(sgTx, s)
  /\ sg' = [sg EXCEPT ![s].pc = "resolved",
                      ![s].result = loadSetting(settings, sg[s].key)]
  /\ sgTx' = SelectSeq(sgTx, LAMBDA x : x.id # s)
  /\ UNCHANGED <<settings, saved, exceptSettings>>

\* The caller has the outcome.
SettingReturns(s) ==
  /\ sg[s].pc = "resolved"
  /\ ~SettingTxLive(s)
  /\ sg' = [sg EXCEPT ![s] = IdleSetting]
  /\ UNCHANGED <<settings, sgTx, saved, exceptSettings>>

\* A database whose settings store is empty
InitSettings ==
  /\ xml = [wellFormed |-> TRUE, nodes |-> <<>>]
  /\ db = [s \in VerseStores |-> <<>>]
  /\ imp = [c \in Calls |-> IdleCall]
  /\ nextSeq = 1
  /\ commits = [s \in VerseStores |-> 0]
  /\ afterFirst = [s \in VerseStores |-> <<>>]
  /\ InitQueryIdle
  /\ InitBookmarksIdle
  /\ InitAppIdle
  /\ InitBootIdle
  /\ InitNavIdle
  /\ InitWorkerIdle
  /\ InitNormalizeIdle
  /\ InitNotesIdle
  /\ InitProgressIdle
  /\ InitUpgradeIdle
  /\ InitDiveIdle
  /\ InitAdapterIdle
  /\ InitSettingsIdle

NextSettings ==
  \/ \E s \in SettingCalls, key \in SettingKeys :
        \E value \in SettingValues(key) : SaveSetting(s, key, value)
  \/ \E s \in SettingCalls, key \in SettingKeys : LoadSetting(s, key)
  \/ \E s \in SettingCalls : SaveSettingResolves(s)
  \/ \E s \in SettingCalls : SaveSettingCommits(s)
  \/ \E s \in SettingCalls : SaveSettingCommitFails(s)
  \/ \E s \in SettingCalls : LoadSettingResolves(s)
  \/ \E s \in SettingCalls : SettingReturns(s)

SpecSettings == InitSettings /\ [][NextSettings]_vars

\* ---------------------------------------------------- settings: claims

\* What the saveSetting calls of a history leave under a key: the value of
\* the last one on that key, null when there is none
LastSaved(history, key) ==
  LET on == {i \in 1..Len(history) : history[i].key = key}
  IN  IF on = {} THEN Null
      ELSE [string |-> history[CHOOSE i \in on : \A j \in on : j <= i].value]

\* C20: a loadSetting(k) called while no saveSetting on k is in progress
\* resolves with the value of the last saveSetting on k that had completed
\* by then, whatever was saved under other keys, and with null when no
\* saveSetting on k had.
C20_LoadReturnsLastSave ==
  \A s \in SettingCalls :
    (sg[s].op = "loadSetting" /\ sg[s].pc = "resolved" /\ ~sg[s].overlap) =>
      sg[s].result = LastSaved(SubSeq(saved, 1, sg[s].after), sg[s].key)

\* ------------------------------------------------------- boot (app.js)

\* What the settings store may hold when the page loads
StoredSettings ==
  {PutAll(<<>>, rows) :
     rows \in {<<>>} \cup
       {<<[key |-> "theme", value |-> v]>> : v \in SettingValues("theme")} \cup
       {<<[key |-> "translation", value |-> t]>> : t \in Translations} \cup
       {<<[key |-> "theme", value |-> v], [key |-> "translation", value |-> t]>> :
          v \in SettingValues("theme"), t \in Translations}}

\* init() is called when the script loads; navigator.serviceWorker.register
\* rejects (the worker's script cannot be fetched or is refused): init awaits
\* registerServiceWorker outside any try, so its own promise rejects before
\* openDb is called, and the call init() has no handler for that.
RegisterServiceWorkerRejects ==
  /\ boot.pc = "start"
  /\ boot' = [boot EXCEPT !.pc = "aborted", !.unhandled = TRUE]
  /\ UNCHANGED <<db, state, rendered, stylesTx, oc, exceptBoot>>

\* init() is called when the script loads; registerServiceWorker resolved
\* (the browser has no service workers, or the registration succeeded) and
\* openDb is called.
RegisterServiceWorker ==
  /\ boot.pc = "start"
  /\ boot' = [boot EXCEPT !.pc = "openDb", !.openDb = "pending"]
  /\ UNCHANGED <<db, state, rendered, stylesTx, oc, exceptBoot>>

\* req.onsuccess: openDb resolves with the database, init goes on.
OpenDbSucceeds ==
  /\ boot.pc = "openDb"
  /\ boot' = [boot EXCEPT !.pc = "theme", !.openDb = "resolved",
                          !.db = [name |-> "nightlamp_bible"],
                          !.dbStatus = "IndexedDB ready"]
  /\ UNCHANGED <<db, state, rendered, stylesTx, oc, exceptBoot>>

\* The environment denies storage: indexedDB.open throws inside the
\* promise's executor or req.onerror is called, and openDb rejects.  init
\* awaits openDb outside any try, so init's own promise rejects, and the
\* call init() at the end of the script has no handler for that.
OpenDbFails ==
  /\ boot.pc = "openDb"
  /\ boot' = [boot EXCEPT !.pc = "aborted", !.openDb = "rejected",
                          !.unhandled = TRUE]
  /\ UNCHANGED <<db, state, rendered, stylesTx, oc, exceptBoot>>

\* setupTheme: the saved theme, if any, becomes the page's, and the click
\* handler of #themeBtn is registered.
SetupTheme ==
  /\ boot.pc = "theme"
  /\ LET savedTheme == loadSetting(settings, "theme")
     IN  boot' = [boot EXCEPT !.pc = "translation",
                              !.theme = IF savedTheme # Null
                                        THEN savedTheme.string ELSE @,
                              !.themeBtn = TRUE]
  /\ UNCHANGED <<db, state, rendered, stylesTx, oc, exceptBoot>>

\* The saves of the theme that may be under way at once
MaxThemeSaves == 2

\* #themeBtn is clicked: the page's theme ("dark" when it has none) is
\* toggled and saveSetting(db, "theme", next) is called; its put is issued
\* in a transaction of its own.
ThemeClick ==
  /\ boot.themeBtn
  /\ Len(boot.saves) < MaxThemeSaves
  /\ LET cur == IF boot.theme # "" THEN boot.theme ELSE "dark"
         next == IF cur = "dark" THEN "light" ELSE "dark"
     IN  /\ settings' = saveSetting(settings, "theme", next)
         /\ boot' = [boot EXCEPT
                      !.theme = next,
                      !.saves = Append(@, [pc |-> "saving",
                                           found |-> getOne(settings, "theme")])]
  /\ UNCHANGED <<db, state, rendered, stylesTx, oc, exceptBootAndSettings>>

\* The request of the oldest put still saving succeeded: saveSetting
\* resolves and the click handler ends.
ThemeSaved ==
  /\ \E i \in 1..Len(boot.saves) :
       /\ boot.saves[i].pc = "saving"
       /\ \A j \in 1..(i - 1) : boot.saves[j].pc # "saving"
       /\ boot' = [boot EXCEPT !.saves[i].pc = "resolved"]
  /\ UNCHANGED <<db, state, rendered, stylesTx, oc, exceptBoot>>

\* The transaction of the oldest theme put commits.
ThemeSaveCommits ==
  /\ boot.saves # <<>>
  /\ boot.saves[1].pc = "resolved"
  /\ boot' = [boot EXCEPT !.saves = Tail(@)]
  /\ UNCHANGED <<db, state, rendered, stylesTx, oc, exceptBoot>>

\* Its commit fails: the transaction aborts and the put is undone, after
\* saveSetting has resolved; the page keeps the theme.  A later put of the
\* theme that is under way is carried out over the record so restored.
ThemeSaveCommitFails ==
  /\ boot.saves # <<>>
  /\ boot.saves[1].pc = "resolved"
  /\ IF Len(boot.saves) > 1
     THEN /\ boot' = [boot EXCEPT !.saves =
                       <<[@[2] EXCEPT !.found = boot.saves[1].found]>>
                         \o SubSeq(@, 3, Len(@))]
          /\ UNCHANGED settings
     ELSE /\ settings' = Undo(settings, "theme", boot.saves[1].found)
          /\ boot' = [boot EXCEPT !.saves = <<>>]
  /\ UNCHANGED <<db, state, rendered, stylesTx, oc, exceptBootAndSettings>>

\* const savedT = await loadSetting(state.db, "translation");
\* if (savedT) state.translation = savedT;
\* init goes on to await loadHighlightLabels().
LoadSavedTranslation ==
  /\ boot.pc = "translation"
  /\ LET savedT == loadSetting(settings, "translation")
     IN  state' = [state EXCEPT !.translation = IF savedT # Null
                                                THEN savedT.string ELSE @]
  /\ boot' = [boot EXCEPT !.pc = "labels"]
  /\ UNCHANGED <<db, rendered, stylesTx, oc, exceptBoot>>

\* loadHighlightLabels resolved: setupSettings calls
\* populateTranslationSelect, which gives the translation select its change
\* listener, and init goes on to await restoreSidebarState().  From here on
\* a change of the select calls setTranslation, whatever init is doing.
SetupSettings ==
  /\ boot.pc = "labels"
  /\ boot' = [boot EXCEPT !.pc = "sidebar", !.select = TRUE]
  /\ UNCHANGED <<db, state, rendered, stylesTx, oc, exceptBoot>>

\* restoreSidebarState resolved: ensureTranslationImported(state.translation)
\* is called with the translation selected by now and awaits the count of
\* its store.
EnsureTranslationCalled ==
  /\ boot.pc = "sidebar"
  /\ boot' = [boot EXCEPT !.pc = "ensure", !.asked = state.translation]
  /\ UNCHANGED <<db, state, rendered, stylesTx, oc, exceptBoot>>

\* What ensureTranslationImported found: the translation, the count and
\* the store counted
Ensured(translationId, store) ==
  [translation |-> translationId, count |-> countStore(store),
   found |-> store]

\* An ensureTranslationImported that would import again whenever the store
\* holds less than the document.
EnsureImportedWhenIncomplete ==
  /\ boot.pc = "ensure"
  /\ LET store == db[StoreOf(boot.asked)]
     IN  boot' =
           IF countStore(store) < Len(AppRows[StoreOf(boot.asked)])
           THEN [boot EXCEPT !.pc = "importing", !.imports = @ + 1,
                             !.ensure = Ensured(boot.asked, store)]
           ELSE [boot EXCEPT !.pc = "appearance",
                             !.ensure = Ensured(boot.asked, store)]
  /\ UNCHANGED <<db, state, rendered, stylesTx, oc, exceptBoot>>

\* The count of ensureTranslationImported(translationId) is there: a store
\* that holds verses is left alone and init goes on to await
\* restoreAppearanceSettings(); an empty one is imported.
EnsureTranslationImported ==
  /\ boot.pc = "ensure"
  /\ LET store == db[StoreOf(boot.asked)]
         count == countStore(store)
         found == [boot EXCEPT !.ensure = Ensured(boot.asked, store)]
     IN  boot' =
           IF boot.asked = "KJV"
           THEN IF count > 0
                THEN [found EXCEPT !.pc = "appearance",
                        !.dbStatus = "KJV imported (" \o Verses(count) \o ")"]
                ELSE [found EXCEPT !.pc = "importing", !.imports = @ + 1,
                                   !.dbStatus = "Importing KJV..."]
           ELSE IF count > 0 THEN [found EXCEPT !.pc = "appearance"]
                ELSE [found EXCEPT !.pc = "importing", !.imports = @ + 1]
  /\ UNCHANGED <<db, state, rendered, stylesTx, oc, exceptBoot>>

\* The import rejects (the document cannot be fetched, or the write
\* fails): ensureTranslationImported rejects, and init with it.  The
\* listeners init has registered stay.
ImportRejects ==
  /\ boot.pc = "importing"
  /\ boot' = [boot EXCEPT !.pc = "aborted", !.unhandled = TRUE]
  /\ UNCHANGED <<db, state, rendered, stylesTx, oc, exceptBoot>>

\* The import resolves, the translation's document being the one the
\* application ships; init goes on to await restoreAppearanceSettings().
ImportResolves ==
  /\ boot.pc = "importing"
  /\ LET store == StoreOf(boot.asked)
         rows == AppRows[store]
     IN  /\ db' = [db EXCEPT ![store] = PutAll(@, rows)]
         /\ boot' =
              [boot EXCEPT !.pc = "appearance",
                 !.dbStatus =
                   IF boot.asked = "KJV"
                   THEN "KJV imported ("
                          \o ToString(Cardinality({rows[i].book :
                                                     i \in 1..Len(rows)}))
                          \o " books, " \o Verses(Len(rows)) \o ")"
                   ELSE @]
  /\ UNCHANGED <<state, rendered, stylesTx, oc, exceptBoot>>

\* restoreAppearanceSettings resolved, the selects are filled and the
\* panels set up: updateBottomBarForTranslation is called, takes the store
\* of the translation selected by now and awaits its count.
UpdateBottomBarCalled ==
  /\ boot.pc = "appearance"
  /\ boot' = [boot EXCEPT !.pc = "bottomBar",
                          !.bar = StoreOf(state.translation)]
  /\ UNCHANGED <<db, state, rendered, stylesTx, oc, exceptBoot>>

\* The count is there: updateBottomBarForTranslation writes #dbStatus and
\* returns, and init calls openChapter(state.book, state.chapter) in the
\* same turn.
UpdateBottomBar(o) ==
  /\ boot.pc = "bottomBar"
  /\ OpenChapterBegins(o, state.book, state.chapter)
  /\ boot' = [boot EXCEPT !.pc = "chapter", !.bar = "", !.open = o,
                !.dbStatus = boot.bar \o " ("
                               \o Verses(countStore(db[boot.bar])) \o ")"]
  /\ UNCHANGED <<db, stylesTx, exceptBoot>>

\* The count fails: the catch of updateBottomBarForTranslation ignores it,
\* #dbStatus stays as it was, and init calls openChapter all the same.
UpdateBottomBarFails(o) ==
  /\ boot.pc = "bottomBar"
  /\ OpenChapterBegins(o, state.book, state.chapter)
  /\ boot' = [boot EXCEPT !.pc = "chapter", !.bar = "", !.open = o]
  /\ UNCHANGED <<db, stylesTx, exceptBoot>>

\* The openChapter init called has returned: init ends.
InitReturns ==
  /\ boot.pc = "chapter"
  /\ oc[boot.open].pc = "idle"
  /\ boot' = [boot EXCEPT !.pc = "done", !.open = 0]
  /\ UNCHANGED <<db, state, rendered, stylesTx, oc, exceptBoot>>

\* What a verse store may hold when the page loads: nothing, the first
\* record only (an import of an older or shorter document), or the
\* translation
Holdings == {"nothing", "part", "all"}

Held(s, holding) ==
  CASE holding = "nothing" -> <<>>
    [] holding = "part" -> PutAll(<<>>, SubSeq(AppRows[s], 1, 1))
    [] holding = "all" -> PutAll(<<>>, AppRows[s])

\* The page loads: each verse store holds nothing, a part or all of its
\* translation, the settings store holds what earlier visits saved.
InitBoot ==
  /\ xml = [wellFormed |-> TRUE, nodes |-> <<>>]
  /\ \E holding \in [VerseStores -> Holdings] :
       db = [s \in VerseStores |-> Held(s, holding[s])]
  /\ imp = [c \in Calls |-> IdleCall]
  /\ nextSeq = 1
  /\ commits = [s \in VerseStores |-> 0]
  /\ afterFirst = [s \in VerseStores |-> <<>>]
  /\ InitQueryIdle
  /\ InitBookmarksIdle
  /\ state = InitialState
  /\ rendered = <<>>
  /\ styles = <<>>
  /\ settings \in StoredSettings
  /\ stylesTx = <<>>
  /\ oc = [o \in OpenCalls |-> IdleOpen]
  /\ st = [s \in SwitchCalls |-> IdleSwitch]
  /\ up = [u \in UpsertCalls |-> IdleUpsert]
  /\ upserts = <<>>
  /\ InitDiveIdle
  /\ InitAdapterIdle
  /\ InitSettingsIdle
  /\ boot = [IdleBoot EXCEPT !.pc = "start"]
  /\ InitNavIdle
  /\ InitWorkerIdle
  /\ InitNormalizeIdle
  /\ InitNotesIdle
  /\ InitProgressIdle
  /\ InitUpgradeIdle

NextBoot ==
  \/ RegisterServiceWorker
  \/ RegisterServiceWorkerRejects
  \/ OpenDbSucceeds
  \/ OpenDbFails
  \/ SetupTheme
  \/ ThemeClick
  \/ ThemeSaved
  \/ ThemeSaveCommits
  \/ ThemeSaveCommitFails
  \/ LoadSavedTranslation
  \/ SetupSettings
  \/ EnsureTranslationCalled
  \/ EnsureTranslationImported
  \/ ImportResolves
  \/ ImportRejects
  \/ UpdateBottomBarCalled
  \/ \E o \in OpenCalls : UpdateBottomBar(o)
  \/ \E o \in OpenCalls : UpdateBottomBarFails(o)
  \/ \E o \in OpenCalls : OpenChapterLoaded(o)
  \/ \E o \in OpenCalls : OpenChapterFails(o)
  \/ \E o \in OpenCalls : OpenChapterStyles(o)
  \/ InitReturns

SpecBoot == InitBoot /\ [][NextBoot]_vars

\* --------------------------------------------------------- boot: claims

\* C18: when openDb has rejected, init has not ended in an unhandled
\* rejection: it goes on in a degraded mode, and the status line tells of
\* the failure.
C18_OpenFailureIsHandled ==
  boot.openDb = "rejected" =>
    /\ ~boot.unhandled
    /\ boot.pc # "aborted"
    /\ boot.dbStatus \notin {"", "IndexedDB ready"}

\* ------------------------------------------------------ openDb (db.js)

DB_VERSION == 3

\* STORES
STORES ==
  {"kjv_verses", "niv_cache", "niv_verses", "esv_verses", "amp_verses",
   "ampc_verses", "nvi_es_verses", "bookmarks", "verse_styles", "settings"}

\* The indexes createIndex gives each store
StoreIndexes(name) ==
  CASE name = "bookmarks" -> {"by_translation", "by_savedAt"}
    [] name = "verse_styles" -> {"by_ref", "by_translation", "by_updatedAt"}
    [] name = "settings" -> {}
    [] OTHER -> {"by_book_chapter"}

\* db.createObjectStore(name, { keyPath: "key" }) and its createIndex calls
createObjectStore(name) ==
  [keyPath |-> "key", indexes |-> StoreIndexes(name), records |-> <<>>]

\* An upgrade that would build every store anew.
UpgradeRebuilding(stores) == [name \in STORES |-> createObjectStore(name)]

\* req.onupgradeneeded: every store of STORES that
\* db.objectStoreNames does not contain is created.
onupgradeneeded(stores) ==
  [name \in DOMAIN stores \cup STORES |->
     IF name \in DOMAIN stores THEN stores[name] ELSE createObjectStore(name)]

\* What a store may hold from earlier visits
StoredRecords(name) ==
  CASE name = "settings" -> <<[key |-> "theme", value |-> "dark"]>>
    [] name = "bookmarks" ->
         <<[key |-> "KJV|Genesis|1", translation |-> "KJV",
            book |-> "Genesis", chapter |-> 1, savedAt |-> 1]>>
    [] name = "verse_styles" ->
         <<[key |-> "KJV|Genesis|1|1", translation |-> "KJV",
            book |-> "Genesis", chapter |-> 1, verse |-> 1,
            color |-> "gold", note |-> "x", updatedAt |-> 1]>>
    [] OTHER -> <<Row("Genesis", 1, 1, <<"a">>)>>

\* openDb is called: indexedDB.open(DB_NAME, DB_VERSION)
OpenRequested ==
  /\ od.pc = "idle"
  /\ od' = [pc |-> "pending", found |-> idb]
  /\ UNCHANGED <<idb, exceptUpgrade>>

\* The database is older than DB_VERSION, or is not there: the upgrade
\* transaction runs req.onupgradeneeded.
UpgradeRuns ==
  /\ od.pc = "pending"
  /\ idb.version < DB_VERSION
  /\ idb' = [version |-> DB_VERSION, stores |-> onupgradeneeded(idb.stores)]
  /\ od' = [od EXCEPT !.pc = "upgraded"]
  /\ UNCHANGED exceptUpgrade

\* req.onsuccess
OpenResolves ==
  /\ \/ od.pc = "upgraded"
     \/ od.pc = "pending" /\ idb.version = DB_VERSION
  /\ od' = [od EXCEPT !.pc = "resolved"]
  /\ UNCHANGED <<idb, exceptUpgrade>>

\* The database on disk is newer than DB_VERSION: the request fails with
\* VersionError, req.onerror rejects.
OpenRejects ==
  /\ od.pc = "pending"
  /\ idb.version > DB_VERSION
  /\ od' = [od EXCEPT !.pc = "rejected"]
  /\ UNCHANGED <<idb, exceptUpgrade>>

\* The page is closed; the next visit calls openDb again.
PageCloses ==
  /\ od.pc \in {"resolved", "rejected"}
  /\ od' = IdleOpenDb
  /\ UNCHANGED <<idb, exceptUpgrade>>

\* A first visit, or a database left by some version of the application:
\* the stores of that version, empty or not.  Version DB_VERSION has all
\* of STORES.
InitUpgrade ==
  /\ xml = [wellFormed |-> TRUE, nodes |-> <<>>]
  /\ db = [s \in VerseStores |-> <<>>]
  /\ imp = [c \in Calls |-> IdleCall]
  /\ nextSeq = 1
  /\ commits = [s \in VerseStores |-> 0]
  /\ afterFirst = [s \in VerseStores |-> <<>>]
  /\ InitQueryIdle
  /\ InitBookmarksIdle
  /\ InitAppIdle
  /\ InitDiveIdle
  /\ InitAdapterIdle
  /\ InitSettingsIdle
  /\ InitBootIdle
  /\ InitNavIdle
  /\ InitWorkerIdle
  /\ InitNormalizeIdle
  /\ InitNotesIdle
  /\ InitProgressIdle
  /\ \E version \in 0..(DB_VERSION + 1) :
       IF version = 0 THEN idb = NoDatabase
       ELSE \E existing \in SUBSET STORES, filled \in BOOLEAN :
              /\ version = DB_VERSION => existing = STORES
              /\ idb = [version |-> version,
                        stores |->
                          [name \in existing |->
                             [createObjectStore(name) EXCEPT !.records =
                                IF filled THEN StoredRecords(name)
                                ELSE <<>>]]]
  /\ od = IdleOpenDb

NextUpgrade ==
  \/ OpenRequested
  \/ UpgradeRuns
  \/ OpenResolves
  \/ OpenRejects
  \/ PageCloses

SpecUpgrade == InitUpgrade /\ [][NextUpgrade]_vars

\* ------------------------------------------------------- openDb: claims

\* C22: once openDb has upgraded the database it found, every store that
\* was there is still there with the very records and indexes it had, the
\* stores of STORES that were missing exist and are empty, and no other
\* store was made; a database that needs no upgrade is left as it was.
C22_UpgradeIsAdditive ==
  od.pc \in {"upgraded", "resolved", "rejected"} =>
    IF od.found.version >= DB_VERSION THEN idb = od.found
    ELSE /\ \A name \in DOMAIN od.found.stores :
              /\ name \in DOMAIN idb.stores
              /\ idb.stores[name] = od.found.stores[name]
         /\ DOMAIN idb.stores = DOMAIN od.found.stores \cup STORES
         /\ \A name \in DOMAIN idb.stores \ DOMAIN od.found.stores :
              idb.stores[name] = createObjectStore(name)

\* A database of version 1 that held verses in kjv_verses and had no
\* esv_verses was opened: esv_verses is there, empty, and kjv_verses holds
\* what it held.
C22_Witness ==
  /\ od.pc = "resolved"
  /\ od.found.version = 1
  /\ "kjv_verses" \in DOMAIN od.found.stores
  /\ od.found.stores["kjv_verses"].records # <<>>
  /\ "esv_verses" \notin DOMAIN od.found.stores
  /\ idb.version = DB_VERSION
  /\ idb.stores["esv_verses"].records = <<>>
  /\ idb.stores["kjv_verses"] = od.found.stores["kjv_verses"]

\* C25: ensureTranslationImported has started an import only when it
\* counted 0 records; when it counted more, it started none and the store
\* holds what it held, part of the translation or all of it; and once it
\* has returned, the store of the translation is not empty.
C25_ImportOnlyIntoAnEmptyStore ==
  boot.ensure # Null =>
    LET e == boot.ensure
        store == db[StoreOf(e.translation)]
    IN  /\ e.count = Len(e.found)
        /\ boot.imports > 0 => e.count = 0
        /\ e.count > 0 => boot.imports = 0 /\ store = e.found
        /\ boot.pc \in {"appearance", "bottomBar", "chapter", "done"} =>
             store # <<>>

\* kjv_verses held one record of the two of its document:
\* ensureTranslationImported counted 1 and returned, no import was started
\* and the store still holds that one record.
C25_Witness ==
  /\ boot.ensure # Null
  /\ boot.ensure.translation = "KJV"
  /\ boot.ensure.count = 1
  /\ Len(AppRows[KJV_VERSES]) = 2
  /\ boot.pc = "done"
  /\ boot.imports = 0
  /\ Len(db[KJV_VERSES]) = 1

\* ------------------------------------- import progress (importKJV.js)

\* if (onProgress && count % 2000 === 0)
PROGRESS_EVERY == 2000

\* Long documents: length verse nodes under Genesis 1, numbered from 1,
\* every skipEvery-th of them with the number 0 (none when skipEvery is 0).
LongDocs ==
  {[length |-> n, skipEvery |-> k] :
     n \in {1, 1999, 2000, 2001, 4000}, k \in {0, 3}}

NodeAt(doc, i) ==
  IF doc.skipEvery # 0 /\ i % doc.skipEvery = 0
  THEN Node(1, 1, 0, <<"a">>)
  ELSE Node(1, 1, i, <<"a">>)

\* A throttle that would let every record through.
ProgressAlwaysDue(count) == TRUE

\* count % 2000 === 0
ProgressDue(count) == count % PROGRESS_EVERY = 0

\* importBibleFromXML(xmlUrl, storeName, onProgress), the document fetched
\* and parsed: the walk begins with rows = [] and count = 0.
WalkStarts(doc, onProgress) ==
  /\ walk.pc = "idle"
  /\ walk' = [IdleWalk EXCEPT !.pc = "walking", !.doc = doc,
                              !.onProgress = onProgress]
  /\ UNCHANGED exceptProgress

\* One turn of the innermost loop: the verse node is passed over, or its
\* row is pushed, count++, and onProgress(count) is called when due.
VisitVerse ==
  /\ walk.pc = "walking"
  /\ walk.visited < walk.doc.length
  /\ LET n == NodeAt(walk.doc, walk.visited + 1)
         count == walk.count + 1
     IN  walk' =
           IF ParseRows(<<n>>) = <<>>
           THEN [walk EXCEPT !.visited = @ + 1]
           ELSE [walk EXCEPT !.visited = @ + 1, !.rows = @ + 1,
                   !.count = count,
                   !.reported = IF walk.onProgress /\ ProgressDue(count)
                                THEN Append(@, [count |-> count,
                                                rows |-> walk.rows + 1,
                                                pc |-> walk.pc])
                                ELSE @]
  /\ UNCHANGED exceptProgress

\* The loops are over: throw when there are no rows, else putMany.
WalkEnds ==
  /\ walk.pc = "walking"
  /\ walk.visited = walk.doc.length
  /\ walk' = [walk EXCEPT !.pc = IF walk.rows = 0 THEN "rejected"
                                 ELSE "writing"]
  /\ UNCHANGED exceptProgress

\* putMany resolved: return { verses: rows.length, books }
WalkResolves ==
  /\ walk.pc = "writing"
  /\ walk' = [walk EXCEPT !.pc = "resolved", !.verses = walk.rows]
  /\ UNCHANGED exceptProgress

\* The caller has the outcome.
WalkReturns ==
  /\ walk.pc \in {"resolved", "rejected"}
  /\ walk' = IdleWalk
  /\ UNCHANGED exceptProgress

InitProgress ==
  /\ xml = [wellFormed |-> TRUE, nodes |-> <<>>]
  /\ db = [s \in VerseStores |-> <<>>]
  /\ imp = [c \in Calls |-> IdleCall]
  /\ nextSeq = 1
  /\ commits = [s \in VerseStores |-> 0]
  /\ afterFirst = [s \in VerseStores |-> <<>>]
  /\ InitQueryIdle
  /\ InitBookmarksIdle
  /\ InitAppIdle
  /\ InitDiveIdle
  /\ InitAdapterIdle
  /\ InitSettingsIdle
  /\ InitBootIdle
  /\ InitNavIdle
  /\ InitWorkerIdle
  /\ InitNormalizeIdle
  /\ InitNotesIdle
  /\ InitUpgradeIdle
  /\ InitProgressIdle

NextProgress ==
  \/ \E doc \in LongDocs, onProgress \in BOOLEAN : WalkStarts(doc, onProgress)
  \/ VisitVerse
  \/ WalkEnds
  \/ WalkResolves
  \/ WalkReturns

SpecProgress == InitProgress /\ [][NextProgress]_vars

\* ---------------------------------------------- import progress: claims

\* C26: the calls of onProgress so far are, in order, those with the
\* arguments 2000, 4000, ... up to the number of rows accumulated, each
\* made with that many rows accumulated and before putMany was issued; so
\* a call is made for one record in 2000, and once the import has
\* resolved the last argument does not exceed the verses returned.
C26_ProgressEvery2000 ==
  LET calls == walk.reported
  IN  /\ \A i \in 1..Len(calls) :
           /\ calls[i].count = 2000 * i
           /\ calls[i].rows = calls[i].count
           /\ calls[i].pc = "walking"
      /\ Len(calls) * 2000 <= walk.rows
      /\ walk.onProgress => walk.rows < (Len(calls) + 1) * 2000
      /\ ~walk.onProgress => calls = <<>>
      /\ (walk.pc = "resolved" /\ calls # <<>>) =>
           calls[Len(calls)].count <= walk.verses

\* A document of 4000 verses, all importable, has been imported: onProgress
\* was called twice, with 2000 and with 4000.
C26_Witness ==
  /\ walk.pc = "resolved"
  /\ walk.verses = 4000
  /\ Len(walk.reported) = 2
  /\ walk.reported[2].count = 4000

\* ------------------------------------------------ notes tab: model

\* The characters of the notes the model stores
NoteChars(note) ==
  CASE note = "" -> <<>>
    [] note = " " -> <<" ">>
    [] note = "x" -> <<"x">>
    [] note = " y " -> <<" ", "y", " ">>

\* Array.prototype.sort((a, b) => b.updatedAt - a.updatedAt), a stable
\* sort: the records written last come first, in the order they had, and
\* the others follow, sorted the same way.
RECURSIVE SortByUpdatedAt(_)
SortByUpdatedAt(records) ==
  IF Len(records) = 0 THEN <<>>
  ELSE LET times == {records[i].updatedAt : i \in 1..Len(records)}
           last == CHOOSE t \in times : \A u \in times : u - t <= 0
       IN  SelectSeq(records, LAMBDA r : r.updatedAt = last)
             \o SortByUpdatedAt(SelectSeq(records,
                                          LAMBDA r : r.updatedAt # last))

\* listAllStyles(db, translation): getAll, filter, sort
listAllStyles(store, translation) ==
  SortByUpdatedAt(SelectSeq(store, LAMBDA s : s.translation = translation))

\* A listing that would keep the notes made of white space.
ListNotesKeepingBlank(store, translation) ==
  SelectSeq(listAllStyles(store, translation),
            LAMBDA s : Len(NoteChars(s.note)) > 0)

\* listNotes: (s.note || "").trim().length > 0
listNotes(store, translation) ==
  SelectSeq(listAllStyles(store, translation),
            LAMBDA s : Len(trim(NoteChars(s.note))) > 0)

NotesFilters == {"recent", "all", "fav", "study", "research", "personal"}

\* The filter lines of refreshNotesListInto
NotesFiltered(all, filter) ==
  CASE filter = "fav" -> SelectSeq(all, LAMBDA n : n.noteFavorite)
    [] filter \in {"study", "research", "personal"} ->
         SelectSeq(all, LAMBDA n :
           (IF n.noteType = Undefined THEN "study" ELSE n.noteType) = filter)
    [] OTHER -> all

\* const limit = state.notesFilter === "recent" ? 50 : 500
NotesLimit(filter) == IF filter = "recent" THEN 50 ELSE 500

\* filtered.sort(...).slice(0, limit)
NotesShown(all, filter) ==
  LET sorted == SortByUpdatedAt(NotesFiltered(all, filter))
  IN  SubSeq(sorted, 1, Min(NotesLimit(filter), Len(sorted)))

\* The annotation with the i-th key of the store: the first ones are of
\* the other translation, a few have an empty or a blank note, the kinds
\* (some written without one) and the favourites alternate, and the times of writing repeat. The
\* chapters have one digit and the verses two, so that the keys ascend.
StyleAt(i) ==
  LET translation == IF i <= 20 THEN "ESV" ELSE "KJV"
      chapter == 1 + ((i - 1) \div 90)
      verse == 10 + ((i - 1) % 90)
  IN  [key |-> verseStyleKey(translation, "Genesis", ToString(chapter),
                             ToString(verse)),
       translation |-> translation,
       book |-> "Genesis", chapter |-> chapter, verse |-> verse,
       color |-> "none", underline |-> FALSE, bold |-> FALSE,
       bookmarked |-> i % 2 = 0,
       note |-> IF i % 45 = 1 THEN "" ELSE IF i % 45 = 2 THEN " "
                ELSE IF i % 3 = 0 THEN " y " ELSE "x",
       noteType |-> IF i % 5 = 0 THEN "research"
                    ELSE IF i % 7 = 0 THEN "personal"
                    ELSE IF i % 11 = 0 THEN Undefined ELSE "study",
       noteFavorite |-> i % 4 = 1,
       updatedAt |-> (i * 7) % 13]

\* The numbers of annotations the stores of the model hold
StyleCounts == {0, 3, 25, 80, 560}

\* The calls of listNotes that may be under way at once
MaxListings == 2

\* A button of the notes panel: state.notesFilter is set and
\* refreshNotesListInto calls listNotes, whether or not the list an earlier
\* click asked for has arrived.
NotesButton(filter) ==
  /\ notes.pending < MaxListings
  /\ notes' = [notes EXCEPT !.pc = "listing", !.filter = filter,
                            !.pending = @ + 1]
  /\ UNCHANGED exceptNotes

\* The oldest listNotes under way is carried out and resolves: its list is
\* filtered by the state.notesFilter of now, sorted, sliced and shown.
NotesListed ==
  /\ notes.pending > 0
  /\ LET all == listNotes(styles, state.translation)
     IN  notes' = [notes EXCEPT !.pc = "shown", !.pending = @ - 1,
                               !.listed = TRUE, !.all = all,
                               !.shown = NotesShown(all, notes.filter)]
  /\ UNCHANGED exceptNotes

\* A later session: verse_styles holds annotations, one translation is
\* selected.
InitNotes ==
  /\ xml = [wellFormed |-> TRUE, nodes |-> <<>>]
  /\ db = [s \in VerseStores |-> <<>>]
  /\ imp = [c \in Calls |-> IdleCall]
  /\ nextSeq = 1
  /\ commits = [s \in VerseStores |-> 0]
  /\ afterFirst = [s \in VerseStores |-> <<>>]
  /\ InitQueryIdle
  /\ InitBookmarksIdle
  /\ \E t \in Translations : state = [InitialState EXCEPT !.translation = t]
  /\ rendered = <<>>
  /\ \E n \in StyleCounts : styles = [i \in 1..n |-> StyleAt(i)]
  /\ settings = <<>>
  /\ stylesTx = <<>>
  /\ oc = [o \in OpenCalls |-> IdleOpen]
  /\ st = [s \in SwitchCalls |-> IdleSwitch]
  /\ up = [u \in UpsertCalls |-> IdleUpsert]
  /\ upserts = <<>>
  /\ InitDiveIdle
  /\ InitAdapterIdle
  /\ InitSettingsIdle
  /\ InitBootIdle
  /\ InitNavIdle
  /\ InitWorkerIdle
  /\ InitNormalizeIdle
  /\ InitUpgradeIdle
  /\ InitProgressIdle
  /\ InitNotesIdle

NextNotes ==
  \/ \E filter \in NotesFilters : NotesButton(filter)
  \/ NotesListed

SpecNotes == InitNotes /\ [][NextNotes]_vars

\* ------------------------------------------------ notes tab: claims

\* C27: the list listNotes returned holds exactly the stored annotations
\* of the selected translation whose note is not blank, each once, newest
\* first; and the notes tab shows the first 50 of those that pass the
\* filter under "recent", the first 500 under any other filter, or all of
\* them when they are fewer.
C27_NotesAreFilteredSortedAndCapped ==
  notes.listed =>
    LET all == notes.all
        want == {s \in Records(styles) :
                   /\ s.translation = state.translation
                   /\ ~IsBlank(NoteChars(s.note))}
        pass == SelectSeq(all, LAMBDA n :
                  CASE notes.filter = "fav" -> n.noteFavorite
                    [] notes.filter \in {"study", "research", "personal"} ->
                         \/ n.noteType = notes.filter
                         \/ /\ n.noteType = Undefined
                            /\ notes.filter = "study"
                    [] OTHER -> TRUE)
        cap == IF notes.filter = "recent" THEN 50 ELSE 500
    IN  /\ Records(all) = want
        /\ Len(all) = Cardinality(want)
        /\ \A i \in 1..(Len(all) - 1) : all[i].updatedAt >= all[i + 1].updatedAt
        /\ notes.pc = "shown" =>
             /\ Len(notes.shown) = Min(cap, Len(pass))
             /\ notes.shown = SubSeq(pass, 1, Len(notes.shown))

\* More than 500 notes of the translation are stored: under "all" the tab
\* shows 500 of them.
C27_Witness ==
  /\ notes.pc = "shown"
  /\ notes.filter = "all"
  /\ Len(notes.all) > 500
  /\ Len(notes.shown) = 500
  /\ Len(notes.all) < Len(styles)

\* ------------------------------------------- verse stores: who writes

\* The documents the imports of a session fetch
SessionDocs ==
  { [wellFormed |-> TRUE,
     nodes |-> << Node(1, 1, 1, <<"a", " ", "b">>), Node(1, 2, 1, <<"b", "a">>) >>],
    [wellFormed |-> TRUE, nodes |-> << Node(1, 1, 1, <<"B">>) >>] }

\* What the page does besides importing
SessionUses == {"read", "search", "bookmark", "setting", "annotate"}

\* Nothing of that kind was done yet.
NotYet(use) ==
  CASE use = "read" -> chapterRes = NoChapter
    [] use = "search" -> search = NoSearch
    [] use = "bookmark" -> InitBookmarksIdle
    [] use = "setting" -> InitSettingsIdle /\ settings = <<>>
    [] use = "annotate" ->
         /\ state = InitialState
         /\ rendered = <<>>
         /\ styles = <<>>
         /\ stylesTx = <<>>
         /\ oc = [o \in OpenCalls |-> IdleOpen]
         /\ st = [s \in SwitchCalls |-> IdleSwitch]
         /\ up = [u \in UpsertCalls |-> IdleUpsert]
         /\ upserts = <<>>

\* The session is given to one use: the imports run along with it.
GivenTo(use) == \A other \in SessionUses \ {use} : NotYet(other)

\* A first session: the stores are empty, imports are started and the
\* page is used while they run and after them.
InitSession ==
  /\ InitQueryIdle
  /\ InitBookmarksIdle
  /\ InitAppIdle
  /\ InitBootIdle
  /\ InitNavIdle
  /\ InitWorkerIdle
  /\ InitNormalizeIdle
  /\ InitNotesIdle
  /\ InitProgressIdle
  /\ InitUpgradeIdle
  /\ InitSettingsIdle
  /\ InitAdapterIdle
  /\ InitDiveIdle
  /\ xml \in SessionDocs
  /\ db = [s \in VerseStores |-> <<>>]
  /\ imp = [c \in Calls |-> IdleCall]
  /\ nextSeq = 1
  /\ commits = [s \in VerseStores |-> 0]
  /\ afterFirst = [s \in VerseStores |-> <<>>]

\* One call of a kind is made at a time; the bookmarks and the annotations
\* are those of chapter 1, and the annotations are notes.
NextSession ==
  \/ NextImport
  \/ GivenTo("read") /\ NextChapter
  \/ GivenTo("search") /\ NextSearch
  \/ /\ GivenTo("bookmark")
     /\ \/ \E translation \in Translations, book \in BookmarkBooks :
              ToggleStart("t1", translation, book, 1)
        \/ ToggleWrite("t1")
        \/ ToggleReturn("t1")
        \/ ToggleCommits("t1")
        \/ ToggleCommitFails("t1")
  \/ /\ GivenTo("setting")
     /\ \/ \E key \in SettingKeys : \E value \in SettingValues(key) :
              SaveSetting(1, key, value)
        \/ SaveSettingResolves(1)
        \/ SaveSettingCommits(1)
        \/ SaveSettingCommitFails(1)
        \/ SettingReturns(1)
  \/ /\ GivenTo("annotate")
     /\ \/ \E book \in AppBooks : OpenChapter(1, book, 1)
        \/ OpenChapterLoaded(1)
        \/ OpenChapterFails(1)
        \/ OpenChapterStyles(1)
        \/ \E i \in 1..Len(rendered) : SelectVerse(i)
        \/ UpsertSelectedStyle(3, [note |-> "x"])
        \/ UpsertSaved(3)
        \/ \E r \in RemoveCalls, i \in 1..Len(rendered) :
              RemoveVerseStyle(r, state.translation, rendered[i].book,
                               rendered[i].chapter, rendered[i].verse)
        \/ \E r \in RemoveCalls : RemoveVerseStyleResolves(r)
        \/ StyleCommits
        \/ StyleCommitFails

SpecSession == InitSession /\ [][NextSession]_vars

\* ------------------------------------------ verse stores: claims

\* C28: a step changes a verse store only when it is the commit of an
\* import into that store; annotation upserts, bookmark toggles, settings
\* writes, searches and chapter reads leave every verse store as it was,
\* and so does, for the other stores, an import into one store.
C28_OnlyAnImportWritesAVerseStore ==
  [][/\ imp' = imp => db' = db
     /\ \A s \in VerseStores :
          db'[s] # db[s] =>
            \E c \in Calls : /\ imp[c].pc = "writing"
                             /\ imp[c].store = s
                             /\ imp'[c].pc = "resolved"]_vars

\* One store was imported into and the other not, and a verse of the
\* imported one was annotated since: the first holds the rows of the
\* import, the second is still empty.
C28_Witness ==
  /\ \E c \in Calls : imp[c].pc = "resolved" /\ imp[c].store = KJV_VERSES
  /\ \A c \in Calls : imp[c].store # ESV_VERSES
  /\ db[KJV_VERSES] = PutAll(<<>>, ParseRows(xml.nodes))
  /\ db[ESV_VERSES] = <<>>
  /\ Len(upserts) > 0
  /\ styles # <<>>

\* ------------------------------------------------- verse text: model

MaxTextLen == 5

\* The characters of a verse element's text content
TextChars == {"a", "b", " ", NBSP, "\n"}

VerseTexts == UNION {[1..n -> TextChars] : n \in 0..MaxTextLen}

\* const text = normalizeWhitespace(v.textContent)
NormalizeText ==
  /\ nw.pc = "read"
  /\ nw' = [nw EXCEPT !.pc = "normalized", !.out = normalizeWhitespace(nw.text)]
  /\ UNCHANGED exceptNormalize

\* rows.push({ key, book, chapter, verse, text }) when text is not empty
TextKept ==
  /\ nw.pc = "normalized"
  /\ nw' = [nw EXCEPT !.pc = IF nw.out = <<>> THEN "skipped" ELSE "stored"]
  /\ UNCHANGED exceptNormalize

\* The walk is at a verse element whose text content was read.
InitNormalize ==
  /\ xml = [wellFormed |-> TRUE, nodes |-> <<>>]
  /\ db = [s \in VerseStores |-> <<>>]
  /\ imp = [c \in Calls |-> IdleCall]
  /\ nextSeq = 1
  /\ commits = [s \in VerseStores |-> 0]
  /\ afterFirst = [s \in VerseStores |-> <<>>]
  /\ InitQueryIdle
  /\ InitBookmarksIdle
  /\ InitAppIdle
  /\ InitDiveIdle
  /\ InitAdapterIdle
  /\ InitSettingsIdle
  /\ InitBootIdle
  /\ InitNavIdle
  /\ InitWorkerIdle
  /\ InitUpgradeIdle
  /\ InitProgressIdle
  /\ InitNotesIdle
  /\ \E text \in VerseTexts : nw = [IdleNormalize EXCEPT !.pc = "read", !.text = text]

NextNormalize ==
  \/ NormalizeText
  \/ TextKept

SpecNormalize == InitNormalize /\ [][NextNormalize]_vars

\* ------------------------------------------------ verse text: claims

\* The places of the characters of a text that are not white space
Inked(s) == SelectSeq([i \in 1..Len(s) |-> i], LAMBDA i : ~IsSpace(s[i]))

\* C29: the text kept for a verse has the characters of the text content
\* that are not white space, in their order, with one ASCII space where the
\* content had a run of white space between two of them and nothing
\* elsewhere: no non-breaking space, no two spaces in a row, no space
\* first or last; and normalizing it again returns it unchanged.
C29_TextIsCollapsedAndTrimmed ==
  nw.pc \in {"normalized", "stored", "skipped"} =>
    LET s == nw.text
        r == nw.out
        si == Inked(s)
        ri == Inked(r)
    IN  /\ \A i \in 1..Len(r) : IsSpace(r[i]) => r[i] = " "
        /\ \A i \in 1..(Len(r) - 1) : ~(r[i] = " " /\ r[i + 1] = " ")
        /\ r # <<>> => r[1] # " " /\ r[Len(r)] # " "
        /\ Len(ri) = Len(si)
        /\ \A k \in 1..Len(si) : r[ri[k]] = s[si[k]]
        /\ \A k \in 1..(Len(si) - 1) :
             (ri[k + 1] = ri[k] + 1) <=> (si[k + 1] = si[k] + 1)
        /\ normalizeWhitespace(r) = r

\* A text content with white space first, last and in runs, a non-breaking
\* space among it, was read and its text is stored.
C29_Witness ==
  /\ nw.pc = "stored"
  /\ nw.text = <<NBSP, "a", " ", NBSP, "b">>
  /\ nw.out = <<"a", " ", "b">>

\* --------------------------------------------- service worker: model

\* The two service worker scripts of the repository, by their CACHE_NAME:
\* sw.js, and the later script with the GET-only handler.
WorkerScripts == {"nightlamp-vscode-v2", "nightlamp-v3"}

\* A request for a file of PRECACHE, and one for a file that is not in it
WorkerUrls == {"./index.html", "./data/other.json"}
Precached == {"./index.html"}

RequestMethods == {"GET", "POST"}

\* A Response: its status, its ok flag and its type
MakeResponse(status, type, body) ==
  [status |-> status, ok |-> status \in 200..299, type |-> type, body |-> body]

\* What the network can answer
NetResponses ==
  { MakeResponse(200, "basic", "file"),
    MakeResponse(200, "cors", "file"),
    MakeResponse(0, "opaque", ""),
    MakeResponse(404, "basic", "Not Found") }

\* fetch(event.request) rejected
NetworkError == [rejected |-> TRUE]

\* new Response("Offline", { status: 503, statusText: "Offline" })
OfflineResponse == MakeResponse(503, "default", "Offline")

\* respondWith was given a promise that resolved with undefined
NotAResponse == [undefined |-> TRUE]

\* respondWith was given a promise that rejected
Rejection == [rejection |-> TRUE]

\* catch { return cached || new Response("Offline", ...) } in the later
\* script, .catch(() => cached) in sw.js; cached is undefined there.
AnswerOnFailure(script, cached) ==
  IF script = "nightlamp-v3"
  THEN IF cached # Null THEN cached ELSE OfflineResponse
  ELSE IF cached # Null THEN cached ELSE NotAResponse

\* The later script returns before respondWith for a method other than GET.
Intercepts(script, method) == script = "nightlamp-v3" => method = "GET"

\* The later script opens the cache and calls cache.put for an OK basic or
\* cors response only, sw.js for every response.
PutIssued(script, resp) ==
  script = "nightlamp-v3" => resp.ok /\ resp.type \in {"basic", "cors"}

\* The page, or the browser, makes a request: a fetch event is dispatched,
\* whether or not an earlier event is still being handled.  The listener
\* calls respondWith and caches.match(event.request), or returns.
FetchEvent(e, method, url) ==
  /\ FirstIdle(sw.ev, WorkerEvents, e)
  /\ sw' = [sw EXCEPT !.ev[e] =
              [NoEvent EXCEPT !.method = method, !.url = url,
                 !.intercepted = Intercepts(sw.script, method),
                 !.pc = IF Intercepts(sw.script, method)
                        THEN "matching" ELSE "passed"]]
  /\ UNCHANGED exceptWorker

\* caches.match(event.request) resolved with what the cache holds by now:
\* the entry is the answer, or fetch(event.request) is called.  No entry
\* matches a request that is not a GET.
CacheMatched(e) ==
  /\ sw.ev[e].pc = "matching"
  /\ LET cached == IF sw.ev[e].method = "GET" THEN sw.cache[sw.ev[e].url]
                   ELSE Null
     IN  sw' = [sw EXCEPT !.ev[e] =
                  IF cached # Null
                  THEN [@ EXCEPT !.pc = "answered", !.cached = cached,
                                 !.answer = cached]
                  ELSE [@ EXCEPT !.pc = "fetching", !.requests = @ + 1]]
  /\ UNCHANGED exceptWorker

\* caches.match(event.request) rejected (the cache storage cannot be
\* read): neither script handles that, sw.js having its catch on the fetch
\* and the later script its try around it, and respondWith's promise
\* rejects.
CacheMatchFails(e) ==
  /\ sw.ev[e].pc = "matching"
  /\ sw' = [sw EXCEPT !.ev[e] = [@ EXCEPT !.pc = "answered",
                                          !.answer = Rejection]]
  /\ UNCHANGED exceptWorker

\* fetch(event.request) resolved: caches.open(CACHE_NAME) is called, by
\* sw.js for every response and by the later script for the responses it
\* caches; the later script returns the others as they are.
NetworkResponds(e, resp) ==
  /\ sw.ev[e].pc = "fetching"
  /\ sw' = [sw EXCEPT !.ev[e] =
              IF PutIssued(sw.script, resp)
              THEN [@ EXCEPT !.pc = "opening", !.net = resp]
              ELSE [@ EXCEPT !.pc = "answered", !.net = resp,
                             !.answer = resp]]
  /\ UNCHANGED exceptWorker

\* fetch(event.request) rejected.
NetworkFails(e) ==
  /\ sw.ev[e].pc = "fetching"
  /\ sw' = [sw EXCEPT !.ev[e] =
              [@ EXCEPT !.pc = "answered", !.net = NetworkError,
                        !.answer = AnswerOnFailure(sw.script, sw.ev[e].cached)]]
  /\ UNCHANGED exceptWorker

\* caches.open resolved: cache.put(event.request, resp.clone()) is called
\* and not awaited, and the response is returned.
CacheOpened(e) ==
  /\ sw.ev[e].pc = "opening"
  /\ sw' = [sw EXCEPT !.ev[e] = [@ EXCEPT !.pc = "answered",
                                          !.put = "pending",
                                          !.answer = sw.ev[e].net]]
  /\ UNCHANGED exceptWorker

\* caches.open rejected: in sw.js the rejection reaches the .catch on the
\* fetch, in the later script the catch of the try; both answer as they do
\* when the network fails, and no put is issued.
CacheOpenFails(e) ==
  /\ sw.ev[e].pc = "opening"
  /\ sw' = [sw EXCEPT !.ev[e] =
              [@ EXCEPT !.pc = "answered",
                        !.answer = AnswerOnFailure(sw.script, sw.ev[e].cached)]]
  /\ UNCHANGED exceptWorker

\* The put of an event is carried out: the cache holds the response under
\* the request's URL.  A put is carried out for a GET request only.
CachePut(e) ==
  /\ sw.ev[e].put = "pending"
  /\ sw.ev[e].method = "GET"
  /\ sw' = [sw EXCEPT !.cache[sw.ev[e].url] = sw.ev[e].net,
                      !.ev[e].put = "done"]
  /\ UNCHANGED exceptWorker

\* The put of an event rejects (the request is not a GET, or the storage
\* refuses the entry): nothing is cached, and nothing handles the
\* rejection.
CachePutFails(e) ==
  /\ sw.ev[e].put = "pending"
  /\ sw' = [sw EXCEPT !.ev[e].put = "failed"]
  /\ UNCHANGED exceptWorker

\* The event is over: it was passed on, or it was answered and the put it
\* issued, if any, has settled.
EventEnds(e) ==
  /\ sw.ev[e].pc \in {"answered", "passed"}
  /\ sw.ev[e].put # "pending"
  /\ sw' = [sw EXCEPT !.ev[e] = NoEvent]
  /\ UNCHANGED exceptWorker

\* One of the scripts is installed and active; its cache holds the files
\* of PRECACHE, or not all of them.
InitWorker ==
  /\ xml = [wellFormed |-> TRUE, nodes |-> <<>>]
  /\ db = [s \in VerseStores |-> <<>>]
  /\ imp = [c \in Calls |-> IdleCall]
  /\ nextSeq = 1
  /\ commits = [s \in VerseStores |-> 0]
  /\ afterFirst = [s \in VerseStores |-> <<>>]
  /\ InitQueryIdle
  /\ InitBookmarksIdle
  /\ InitAppIdle
  /\ InitDiveIdle
  /\ InitAdapterIdle
  /\ InitSettingsIdle
  /\ InitBootIdle
  /\ InitNavIdle
  /\ InitUpgradeIdle
  /\ InitProgressIdle
  /\ InitNotesIdle
  /\ InitNormalizeIdle
  /\ \E script \in WorkerScripts, added \in SUBSET Precached :
       sw = [script |-> script,
             cache |-> [u \in WorkerUrls |->
                          IF u \in added THEN MakeResponse(200, "basic", "file")
                          ELSE Null],
             ev |-> [e \in WorkerEvents |-> NoEvent]]

NextWorker ==
  \/ \E e \in WorkerEvents, method \in RequestMethods, url \in WorkerUrls :
        FetchEvent(e, method, url)
  \/ \E e \in WorkerEvents : CacheMatched(e)
  \/ \E e \in WorkerEvents : CacheMatchFails(e)
  \/ \E e \in WorkerEvents, resp \in NetResponses : NetworkResponds(e, resp)
  \/ \E e \in WorkerEvents : NetworkFails(e)
  \/ \E e \in WorkerEvents : CacheOpened(e)
  \/ \E e \in WorkerEvents : CacheOpenFails(e)
  \/ \E e \in WorkerEvents : CachePut(e)
  \/ \E e \in WorkerEvents : CachePutFails(e)
  \/ \E e \in WorkerEvents : EventEnds(e)

SpecWorker == InitWorker /\ [][NextWorker]_vars

\* -------------------------------------------- service worker: claims

\* C30: a request that is not a GET is not intercepted, and an intercepted
\* GET is answered with a Response, never with a rejection: the cached
\* entry, without a network request, when there is one; otherwise the
\* network's response, put in the cache only when it is OK and basic or
\* cors; otherwise, when the network failed, the 503 "Offline" response.
C30_EveryGetIsAnswered ==
  \A e \in WorkerEvents :
    LET ev == sw.ev[e]
    IN  /\ ev.intercepted => ev.method = "GET"
        /\ ev.pc = "answered" =>
             /\ ev.answer \notin {NotAResponse, Rejection}
             /\ ev.cached # Null =>
                  ev.answer = ev.cached /\ ev.requests = 0
             /\ (ev.cached = Null /\ ev.net \in NetResponses) =>
                  /\ ev.answer = ev.net
                  /\ ev.put # "none" =>
                       ev.net.ok /\ ev.net.type \in {"basic", "cors"}
             /\ (ev.cached = Null /\ ev.net = NetworkError) =>
                  ev.answer = OfflineResponse

\* ------------------------------------------------ page state: claims

\* C31: when no openChapter call is in progress, every verse of
\* state.verses is of the book and the chapter state names.
C31_VersesAreOfTheCurrentChapter ==
  (\A o \in OpenCalls : oc[o].pc = "idle") =>
    \A i \in 1..Len(state.verses) :
      /\ state.verses[i].book = state.book
      /\ state.verses[i].chapter = state.chapter

\* C32: state.selected is null, with state.selectedKey empty, or a verse
\* with a book, a chapter and a verse number whose locator is
\* state.selectedKey and whose style, when it has one, is the annotation of
\* that verse.
C32_SelectionIsAVerseWithItsOwnStyle ==
  IF state.selected = Null THEN state.selectedKey = ""
  ELSE LET v == state.selected
       IN  /\ {"book", "chapter", "verse"} \subseteq DOMAIN v
           /\ state.selectedKey =
                Shown(v, "book") \o "|" \o Shown(v, "chapter") \o "|"
                  \o Shown(v, "verse")
           /\ ("style" \in DOMAIN v /\ v.style # Null) =>
                /\ v.style.book = v.book
                /\ v.style.chapter = v.chapter
                /\ v.style.verse = v.verse

\* C33: every record of verse_styles has a translation, a book, a chapter
\* and a verse, and its key is translation|book|chapter|verse of these.
C33_StyleKeysMatchTheirFields ==
  \A i \in 1..Len(styles) :
    LET s == styles[i]
    IN  /\ {"translation", "book", "chapter", "verse"} \subseteq DOMAIN s
        /\ s.key = verseStyleKey(s.translation, s.book, ToString(s.chapter),
                                 ToString(s.verse))

\* C34: an upsert issued when no other upsert on its key was in progress,
\* no write on the key being undone by a failed commit, writes the patch
\* merged over the record then stored under the key, or over the defaults
\* when none was stored.
C34_BaseIsTheStoredRecord ==
  \A i \in 1..Len(upserts) :
    (~upserts[i].overlap /\ ~Lost(upserts[i].key)) =>
      LET u == upserts[i]
          base == IF u.prior # Null THEN u.prior
                  ELSE DefaultStyle(u.key, u.translation, u.v)
      IN  u.written =
            Spread(Spread(base, u.patch), [updatedAt |-> u.written.updatedAt])

\* ------------------------------------------- bookmarks: overlapping calls

\* C35: a toggleBookmark call that reports added found the bookmark absent
\* right before its write and left it present, one that reports removed
\* found it present and left it absent; and when no call on a chapter is
\* in progress, none of their writes having been undone by a failed
\* commit, its bookmark is stored exactly if an odd number of calls on it
\* have completed.
C35_ResultMatchesEffect ==
  /\ [][\A t \in Togglers :
          (tog[t].pc = "reading" /\ tog'[t].pc = "writing") =>
            LET before == getOne(bookmarks, tog[t].key) # Null
                after == getOne(bookmarks', tog[t].key) # Null
            IN  IF tog'[t].result THEN ~before /\ after
                ELSE before /\ ~after]_vars
  /\ [](\A key \in {toggled[i].key : i \in 1..Len(toggled)} :
          (/\ \A t \in Togglers : tog[t].pc = "idle" \/ tog[t].key # key
           /\ ~LostOn(key)) =>
            ((getOne(bookmarks, key) # Null)
               <=> (Len(ResultsOn(toggled, key)) % 2 = 1)))

\* ----------------------------------------- putOne and the commit: claims

\* C36: when putOne has resolved with true and its transaction is over,
\* the store the transaction left holds the record under its key.
C36_PutOneSuccessMeansStored ==
  \A a \in AdapterCalls :
    (ad[a].op = "putOne" /\ ad[a].pc = "resolved") =>
      getOne(ad[a].left, ad[a].arg.row.key) = ad[a].arg.row

\* ------------------------------------- translation switch: model

\* The translation select is changed: its change listener, registered by
\* setupSettings while init is still under way, calls setTranslation.  It
\* stays registered when init is rejected later on.
PageSetTranslation(s, t) ==
  /\ boot.select
  /\ SetTranslation(s, t)

\* ensureTranslationImported(t) found the store empty: the import starts
\* (ensureKJVImported says so in #dbStatus).
SetTranslationImportStarts(s) ==
  /\ st[s].pc = "ensure"
  /\ countStore(db[StoreOf(st[s].t)]) = 0
  /\ st' = [st EXCEPT ![s].pc = "importing"]
  /\ boot' = IF st[s].t = "KJV"
             THEN [boot EXCEPT !.dbStatus = "Importing KJV..."]
             ELSE boot
  /\ UNCHANGED <<state, rendered, styles, settings, stylesTx, oc, up, upserts,
                 now, exceptAppAndBoot>>

\* The import resolved, its rows being in the store (ensureKJVImported
\* writes the books and verses to #dbStatus), and setTranslation goes on in
\* the same task to openChapter(state.book, state.chapter), up to the first
\* await of that.
SetTranslationImports(s, o) ==
  /\ st[s].pc = "importing"
  /\ LET store == StoreOf(st[s].t)
         rows == AppRows[store]
     IN  /\ db' = [db EXCEPT ![store] = PutAll(@, rows)]
         /\ boot' =
              IF st[s].t = "KJV"
              THEN [boot EXCEPT !.lone = Null,
                                !.dbStatus =
                      "KJV imported ("
                        \o ToString(Cardinality({rows[i].book :
                                                   i \in 1..Len(rows)}))
                        \o " books, " \o Verses(Len(rows)) \o ")"]
              ELSE [boot EXCEPT !.lone = Null]
  /\ OpenChapterBegins(o, state.book, state.chapter)
  /\ st' = [st EXCEPT ![s] = SwitchOver(@)]
  /\ UNCHANGED <<xml, imp, nextSeq, commits, afterFirst, queryVars, now,
                 bookmarkVars, styles, settings, stylesTx, up, upserts,
                 diveVars, adapterVars, settingVars, upgradeVars,
                 progressVars, notesVars, normalizeVars, workerVars, navVars>>

\* The import rejected (the document cannot be fetched): setTranslation
\* rejects at that await and is over, as is the listener that called it.
\* The failure of a call that overlapped no other stays on record until
\* the next call.
SetTranslationImportRejects(s) ==
  /\ st[s].pc = "importing"
  /\ st' = [st EXCEPT ![s] = SwitchOver(@)]
  /\ boot' = [boot EXCEPT !.lone =
                IF @ = Null THEN Null ELSE [@ EXCEPT !.failed = TRUE]]
  /\ UNCHANGED <<state, rendered, styles, settings, stylesTx, oc, up, upserts,
                 now, exceptAppAndBoot>>

\* The stores whose import the page has under way.
Importing ==
  {StoreOf(st[s].t) : s \in {x \in SwitchCalls : st[x].pc = "importing"}}
    \cup (IF boot.pc = "importing" THEN {StoreOf(boot.asked)} ELSE {})

\* The page is loaded again, at any time: the script's state is new, its
\* calls are gone (a call that failed stays on record, without what
\* preceded it), and the database is the one the earlier page left.  Of
\* the transactions the page leaves behind, each has committed or is
\* aborted: a setting is the one of the last put that committed, or the
\* one before the puts, and an import under way has filled its store or has
\* not.
PageReloads ==
  /\ boot.pc # "none"
  /\ boot' = [IdleBoot EXCEPT
                !.pc = "start",
                !.lone =
                  IF boot.lone # Null /\ boot.lone.failed
                  THEN [boot.lone EXCEPT !.before = Null]
                  ELSE Null]
  /\ state' = InitialState
  /\ rendered' = <<>>
  /\ stylesTx' = <<>>
  /\ oc' = [o \in OpenCalls |-> IdleOpen]
  /\ st' = [s \in SwitchCalls |-> IdleSwitch]
  /\ \E translation \in {getOne(settings, "translation")}
                          \cup {st[s].found : s \in SavingTranslation},
        theme \in {getOne(settings, "theme")}
                    \cup {boot.saves[i].found : i \in 1..Len(boot.saves)} :
       settings' = Undo(Undo(settings, "translation", translation),
                        "theme", theme)
  /\ \E filled \in SUBSET Importing :
       db' = [store \in DOMAIN db |->
                IF store \in filled THEN PutAll(db[store], AppRows[store])
                ELSE db[store]]
  /\ UNCHANGED <<xml, imp, nextSeq, commits, afterFirst, queryVars, now,
                 bookmarkVars, styles, up, upserts, diveVars, adapterVars,
                 settingVars, upgradeVars, progressVars, notesVars,
                 normalizeVars, workerVars, navVars>>

\* The page starts up and the translation select is changed, during the
\* start-up or after it; the theme button is left alone.
NextSwitch ==
  \/ RegisterServiceWorker
  \/ RegisterServiceWorkerRejects
  \/ OpenDbSucceeds
  \/ OpenDbFails
  \/ SetupTheme
  \/ LoadSavedTranslation
  \/ SetupSettings
  \/ EnsureTranslationCalled
  \/ EnsureTranslationImported
  \/ ImportResolves
  \/ ImportRejects
  \/ UpdateBottomBarCalled
  \/ \E o \in OpenCalls : UpdateBottomBar(o)
  \/ \E o \in OpenCalls : UpdateBottomBarFails(o)
  \/ \E o \in OpenCalls : OpenChapterLoaded(o)
  \/ \E o \in OpenCalls : OpenChapterFails(o)
  \/ \E o \in OpenCalls : OpenChapterStyles(o)
  \/ InitReturns
  \/ \E s \in SwitchCalls, t \in Translations : PageSetTranslation(s, t)
  \/ \E s \in SwitchCalls : SetTranslationSaved(s)
  \/ \E s \in SwitchCalls : SetTranslationBar(s)
  \/ \E s \in SwitchCalls : SetTranslationBarFails(s)
  \/ \E s \in SwitchCalls : SetTranslationCommits(s)
  \/ \E s \in SwitchCalls : SetTranslationCommitFails(s)
  \/ \E s \in SwitchCalls : SetTranslationImportStarts(s)
  \/ \E s \in SwitchCalls, o \in OpenCalls : SetTranslationImports(s, o)
  \/ \E s \in SwitchCalls : SetTranslationImportRejects(s)
  \/ \E s \in SwitchCalls, o \in OpenCalls : SetTranslationOpens(s, o)
  \/ PageReloads

\* The page loads as in InitBoot, no theme having been saved.
InitSwitch ==
  /\ InitBoot
  /\ getOne(settings, "theme") = Null

SpecSwitch == InitSwitch /\ [][NextSwitch]_vars

\* ------------------------------------ translation switch: claims

\* C37: when the import started by setTranslation(t) has failed, the call
\* having overlapped no other, the translation of state and the one the
\* settings store holds are the ones of before the call, and a start-up
\* that follows does not end at the import of t failing again.
C37_FailedSwitchIsUndone ==
  LET call == boot.lone
  IN  (call # Null /\ call.failed) =>
        IF call.before # Null
        THEN /\ state.translation = call.before.translation
             /\ getOne(settings, "translation") = call.before.setting
        ELSE ~(boot.pc = "aborted" /\ boot.asked = call.t)

\* ------------------------------------------- dive packs: failed loads

\* What a successful load of the file of a kind puts in the memo.
FileEntries(kind) ==
  {[key |-> k, value |-> EntryValue(kind)] : k \in packFiles[kind]}

\* C38: a failed load of a pack file is not memoized: the memo of a kind
\* is set only by a load that succeeded, so a set memo holds the entries
\* of the file, and a call that answers without fetching answers with
\* what the file holds for its verse.
C38_FailedLoadIsNotMemoized ==
  /\ \A kind \in PackKinds :
       memo[kind].loaded => memo[kind].entries = FileEntries(kind)
  /\ \A d \in DiveCalls :
       (dive[d].pc = "done" /\ ~dive[d].fetched) =>
         dive[d].result = Lookup(FileEntries(dive[d].kind), dive[d].kind, dive[d].key)

\* ---------------------------------------------------- navigation: model

\* The books the navigation is exercised with: those of the timeline's
\* anchors, the longest book and the shortest of the rest.
NavBooks ==
  {"Genesis", "Exodus", "Leviticus", "Ruth", "1 Samuel", "2 Samuel",
   "1 Kings", "2 Kings", "Ezra", "Nehemiah", "Psalms", "Isaiah", "Daniel",
   "Matthew", "Mark", "Luke", "John", "Acts", "Romans", "1 Corinthians",
   "Revelation"}

\* app.js CHAPTER_COUNTS, for the books above.
CHAPTER_COUNTS ==
  [b \in NavBooks |->
     CASE b = "Genesis" -> 50
       [] b = "Exodus" -> 40
       [] b = "Leviticus" -> 27
       [] b = "Ruth" -> 4
       [] b = "1 Samuel" -> 31
       [] b = "2 Samuel" -> 24
       [] b = "1 Kings" -> 22
       [] b = "2 Kings" -> 25
       [] b = "Ezra" -> 10
       [] b = "Nehemiah" -> 13
       [] b = "Psalms" -> 150
       [] b = "Isaiah" -> 66
       [] b = "Daniel" -> 12
       [] b = "Matthew" -> 28
       [] b = "Mark" -> 16
       [] b = "Luke" -> 24
       [] b = "John" -> 21
       [] b = "Acts" -> 28
       [] b = "Romans" -> 16
       [] b = "1 Corinthians" -> 16
       [] b = "Revelation" -> 22]

\* CHAPTER_COUNTS[book] || 50
maxChaptersForBook(book) ==
  IF book \in DOMAIN CHAPTER_COUNTS THEN CHAPTER_COUNTS[book] ELSE 50

Anchor(book, chapter) == [book |-> book, chapter |-> chapter]

\* The anchors of TIMELINE_ERAS, era by era.
TimelineAnchors ==
  {Anchor("Genesis", 1), Anchor("Genesis", 3), Anchor("Genesis", 6),
   Anchor("Genesis", 11)}
    \cup {Anchor("Genesis", 12), Anchor("Genesis", 22), Anchor("Genesis", 28),
          Anchor("Genesis", 37)}
    \cup {Anchor("Exodus", 3), Anchor("Exodus", 12), Anchor("Exodus", 20),
          Anchor("Leviticus", 16)}
    \cup {Anchor("1 Samuel", 16), Anchor("2 Samuel", 7), Anchor("1 Kings", 8),
          Anchor("2 Kings", 17)}
    \cup {Anchor("Daniel", 6), Anchor("Isaiah", 53), Anchor("Ezra", 1),
          Anchor("Nehemiah", 8)}
    \cup {Anchor("Matthew", 5), Anchor("Mark", 15), Anchor("Luke", 24),
          Anchor("John", 1)}
    \cup {Anchor("Acts", 2), Anchor("Romans", 8), Anchor("1 Corinthians", 13),
          Anchor("Revelation", 21)}

\* The records the lists of the page are exercised with (notes, highlights,
\* verse bookmarks, search hits, cross references): each names a verse of
\* the translation, here one of the first or of the last chapter of a book.
ListEntries ==
  {Anchor(b, c) : b \in NavBooks, c \in {1}} \cup
  {Anchor(b, CHAPTER_COUNTS[b]) : b \in NavBooks}

\* The chapter bookmarks the bookmark list is exercised with.  A bookmark
\* names the book and the chapter that were open when #bookmarkBtn was
\* clicked, in this visit or an earlier one: a chapter of the book, or one
\* past its end that was opened from a chapter select left with the
\* options of a longer book (Ruth 27 from the options of Leviticus).
Bookmarked == ListEntries \cup {Anchor("Ruth", 27)}

\* populateChapters: the select gets the options 1..max of state.book
\* and state.chapter is brought down to max.
populateChapters(n) ==
  LET max == maxChaptersForBook(n.book)
  IN  [n EXCEPT !.options = max,
                !.chapter = IF n.chapter > max THEN max ELSE n.chapter]

\* openChapter's first two statements: state.book and state.chapter
\* become its arguments; the select's options stay as they are.
OpenAt(n, book, chapter) == [n EXCEPT !.book = book, !.chapter = chapter]

\* topPrevBtn click
TopPrevBtn ==
  /\ nav' = OpenAt(nav, nav.book, Max({1, nav.chapter - 1}))
  /\ UNCHANGED exceptNav

\* topNextBtn click
TopNextBtn ==
  /\ nav' = OpenAt(nav, nav.book,
                   Min(maxChaptersForBook(nav.book), nav.chapter + 1))
  /\ UNCHANGED exceptNav

\* change of a book select: onBookChanged(value)
OnBookChanged(value) ==
  /\ LET n == populateChapters([nav EXCEPT !.book = value, !.chapter = 1])
     IN  nav' = OpenAt(n, n.book, n.chapter)
  /\ UNCHANGED exceptNav

\* change of a chapter select to one of its options: onChapterChanged
OnChapterChanged(value) ==
  /\ value \in 1..nav.options
  /\ nav' = OpenAt(nav, nav.book, value)
  /\ UNCHANGED exceptNav

\* click on a timeline chip: openChapter(a.book, a.chapter)
TimelineJump(a) ==
  /\ nav' = OpenAt(nav, a.book, a.chapter)
  /\ UNCHANGED exceptNav

\* "Open" on an entry of the notes list, of a highlights or verse bookmarks
\* list, of the search results or of the cross references:
\* openChapter(r.book, r.chapter)
ListOpen(r) ==
  /\ nav' = OpenAt(nav, r.book, r.chapter)
  /\ UNCHANGED exceptNav

\* "Open" on an entry of the chapter bookmarks list:
\* openChapter(b.book, b.chapter)
BookmarkOpen(b) ==
  /\ nav' = OpenAt(nav, b.book, b.chapter)
  /\ UNCHANGED exceptNav

\* Number($("chapterSelect").value): openChapter and the buttons assign the
\* chapter to the select's value, which selects the option of that chapter
\* when the select has one and no option otherwise; the value then reads
\* "", and Number("") is 0.
chapterSelectValue(n) == IF n.chapter \in 1..n.options THEN n.chapter ELSE 0

\* goBtn click (or Enter in a select): the book select's value is
\* state.book, every change of it having gone through onBookChanged;
\* openChapter(b, c) is called when the selects' values differ from state.
GoButton ==
  /\ LET b == nav.book
         c == chapterSelectValue(nav)
     IN  nav' = IF b # nav.book \/ c # nav.chapter THEN OpenAt(nav, b, c)
                ELSE nav
  /\ UNCHANGED exceptNav

InitNav ==
  /\ xml = [wellFormed |-> TRUE, nodes |-> <<>>]
  /\ db = [s \in VerseStores |-> <<>>]
  /\ imp = [c \in Calls |-> IdleCall]
  /\ nextSeq = 1
  /\ commits = [s \in VerseStores |-> 0]
  /\ afterFirst = [s \in VerseStores |-> <<>>]
  /\ InitQueryIdle
  /\ InitBookmarksIdle
  /\ InitAppIdle
  /\ InitDiveIdle
  /\ InitBootIdle
  /\ InitWorkerIdle
  /\ InitNormalizeIdle
  /\ InitNotesIdle
  /\ InitProgressIdle
  /\ InitUpgradeIdle
  /\ InitSettingsIdle
  /\ InitAdapterIdle
  /\ nav = populateChapters(IdleNav)

NextNav ==
  \/ TopPrevBtn
  \/ TopNextBtn
  \/ \E value \in NavBooks : OnBookChanged(value)
  \/ \E value \in 1..nav.options : OnChapterChanged(value)
  \/ \E a \in TimelineAnchors : TimelineJump(a)
  \/ \E r \in ListEntries : ListOpen(r)
  \/ \E b \in Bookmarked : BookmarkOpen(b)
  \/ GoButton

SpecNav == InitNav /\ [][NextNav]_vars

\* --------------------------------------------------- navigation: claims

\* C39: after any sequence of navigation operations the current chapter
\* lies in 1..maxChaptersForBook(state.book), and the chapter select's
\* options are exactly 1..maxChaptersForBook(state.book).
C39_ChapterStaysInItsBook ==
  /\ 1 <= nav.chapter
  /\ nav.chapter <= maxChaptersForBook(nav.book)
  /\ nav.options = maxChaptersForBook(nav.book)

\* ------------------------------------------- overlapping imports: model

\* ensureTranslationImported counted 0 records in the store and called
\* importBibleFromXML.
ImportIntoEmpty(c, s) ==
  /\ countStore(db[s]) = 0
  /\ ImportStart(c, s)

NextOverlap ==
  \/ \E c \in Calls, s \in VerseStores : ImportIntoEmpty(c, s)
  \/ \E c \in Calls : FetchFails(c)
  \/ \E c \in Calls : ImportParse(c)
  \/ \E c \in Calls : TxComplete(c)
  \/ \E c \in Calls : TxRequestError(c)
  \/ \E c \in Calls : TxCommitAbort(c)

SpecOverlap == InitImport /\ [][NextOverlap]_vars

\* ------------------------------------------ overlapping imports: claims

\* C40: imports of one document into one store that all started on
\* count 0 leave the store as a single import leaves it, every row's key
\* there once, and those that resolved report the same verse and book
\* counts.
C40_OverlappingImportsAreOneImport ==
  \A s \in VerseStores :
    /\ commits[s] >= 1 =>
         /\ db[s] = PutAll(<<>>, ParseRows(xml.nodes))
         /\ \A i, j \in 1..Len(db[s]) : i # j => db[s][i].key # db[s][j].key
         /\ \A i \in 1..Len(ParseRows(xml.nodes)) :
              \E j \in 1..Len(db[s]) :
                db[s][j].key = ParseRows(xml.nodes)[i].key
    /\ \A c, o \in Calls :
         (imp[c].pc = "resolved" /\ imp[o].pc = "resolved"
            /\ imp[c].store = s /\ imp[o].store = s) =>
           imp[c].result = imp[o].result

\* Both calls started on the empty kjv_verses, the second wrote into the
\* store the first had filled with two or more records, and both resolved.
C40_Witness ==
  /\ \A c \in Calls : imp[c].pc = "resolved" /\ imp[c].store = KJV_VERSES
  /\ \E c \in Calls : imp[c].found # <<>> /\ Len(imp[c].found) >= 2
  /\ commits[KJV_VERSES] = 2
====
